---- MODULE Spec2Model ----
(***************************************************************************)
(* Model of the terminal state engine (src/terminal/grid.rs), of the       *)
(* PTY pumps (src/app.rs) and of the UI frame that couples them            *)
(* (src/ui.rs).                                                            *)
(*                                                                         *)
(* A TerminalGrid is one record; every method of the source is an operator *)
(* from a grid record to the grid record after the call.  Characters are   *)
(* Unicode code points, colours are 24-bit integers 0xRRGGBB, a Vec<Cell>  *)
(* is a function on 0..len-1.  A handler that would index or slice out of  *)
(* bounds, or underflow a usize subtraction, sets the ghost field          *)
(* `panicked` instead of changing the grid.                                *)
(***************************************************************************)
EXTENDS Integers, Sequences, FiniteSets, TLC

\* ------------------------------------------------------------------ bounds
MaxCols == 3
MaxRows == 3
MaxSteps == 3

\* ------------------------------------------------------- program constants
TAB_SIZE == 8
DEFAULT_FG == 16777215
DEFAULT_BG == 0

\* ------------------------------------------------------------- characters
\* ' ' (Cell::default and every blank written by the handlers)
SPACE == 32

Min(a, b) == IF a < b THEN a ELSE b
Max(a, b) == IF a > b THEN a ELSE b
saturating_sub(a, b) == IF a > b THEN a - b ELSE 0

\* The table of UnicodeWidthChar::width: the ranges of code points whose
\* width is not 1, as <<first, last, width>> in increasing order.  Width 0:
\* Default_Ignorable_Code_Point, Grapheme_Extend (but U+2D7F, width 1), the
\* Hangul medial vowels and final consonants, the prepended marks and
\* letters (U+0605, U+070F, U+0890, U+0891, U+08E2, U+0D4E, U+111C2,
\* U+111C3, U+1193F, U+11941, U+11A3A, U+11A84 to U+11A89, U+11D46,
\* U+11F02), U+A8FA, and the vowel signs U+0CC0, U+0CC7, U+0CC8, U+0CCA,
\* U+0CCB, U+1B3B, U+1B3D and U+1B43; width 2: East_Asian_Width Wide or
\* Fullwidth, U+115F, U+17A4, U+2FFC to U+2FFF and U+31EF; width 3: U+17D8.
\* The properties are those of Unicode 15.1, the table of unicode-width
\* 0.1.14; the crate's version is not fixed by the repository (there is no
\* lock file), and a build against 0.2 differs on code points assigned
\* after Unicode 15.1.
WIDTH_TABLE == <<
    <<173, 173, 0>>, <<768, 879, 0>>, <<1155, 1161, 0>>, <<1425, 1469, 0>>,
    <<1471, 1471, 0>>, <<1473, 1474, 0>>, <<1476, 1477, 0>>, <<1479, 1479, 0>>,
    <<1541, 1541, 0>>, <<1552, 1562, 0>>, <<1564, 1564, 0>>, <<1611, 1631, 0>>,
    <<1648, 1648, 0>>, <<1750, 1756, 0>>, <<1759, 1764, 0>>, <<1767, 1768, 0>>,
    <<1770, 1773, 0>>, <<1807, 1807, 0>>, <<1809, 1809, 0>>, <<1840, 1866, 0>>,
    <<1958, 1968, 0>>, <<2027, 2035, 0>>, <<2045, 2045, 0>>, <<2070, 2073, 0>>,
    <<2075, 2083, 0>>, <<2085, 2087, 0>>, <<2089, 2093, 0>>, <<2137, 2139, 0>>,
    <<2192, 2193, 0>>, <<2200, 2207, 0>>, <<2250, 2306, 0>>, <<2362, 2362, 0>>,
    <<2364, 2364, 0>>, <<2369, 2376, 0>>, <<2381, 2381, 0>>, <<2385, 2391, 0>>,
    <<2402, 2403, 0>>, <<2433, 2433, 0>>, <<2492, 2492, 0>>, <<2494, 2494, 0>>,
    <<2497, 2500, 0>>, <<2509, 2509, 0>>, <<2519, 2519, 0>>, <<2530, 2531, 0>>,
    <<2558, 2558, 0>>, <<2561, 2562, 0>>, <<2620, 2620, 0>>, <<2625, 2626, 0>>,
    <<2631, 2632, 0>>, <<2635, 2637, 0>>, <<2641, 2641, 0>>, <<2672, 2673, 0>>,
    <<2677, 2677, 0>>, <<2689, 2690, 0>>, <<2748, 2748, 0>>, <<2753, 2757, 0>>,
    <<2759, 2760, 0>>, <<2765, 2765, 0>>, <<2786, 2787, 0>>, <<2810, 2815, 0>>,
    <<2817, 2817, 0>>, <<2876, 2876, 0>>, <<2878, 2879, 0>>, <<2881, 2884, 0>>,
    <<2893, 2893, 0>>, <<2901, 2903, 0>>, <<2914, 2915, 0>>, <<2946, 2946, 0>>,
    <<3006, 3006, 0>>, <<3008, 3008, 0>>, <<3021, 3021, 0>>, <<3031, 3031, 0>>,
    <<3072, 3072, 0>>, <<3076, 3076, 0>>, <<3132, 3132, 0>>, <<3134, 3136, 0>>,
    <<3142, 3144, 0>>, <<3146, 3149, 0>>, <<3157, 3158, 0>>, <<3170, 3171, 0>>,
    <<3201, 3201, 0>>, <<3260, 3260, 0>>, <<3263, 3264, 0>>, <<3266, 3266, 0>>,
    <<3270, 3272, 0>>, <<3274, 3277, 0>>, <<3285, 3286, 0>>, <<3298, 3299, 0>>,
    <<3328, 3329, 0>>, <<3387, 3388, 0>>, <<3390, 3390, 0>>, <<3393, 3396, 0>>,
    <<3405, 3406, 0>>, <<3415, 3415, 0>>, <<3426, 3427, 0>>, <<3457, 3457, 0>>,
    <<3530, 3530, 0>>, <<3535, 3535, 0>>, <<3538, 3540, 0>>, <<3542, 3542, 0>>,
    <<3551, 3551, 0>>, <<3633, 3633, 0>>, <<3636, 3642, 0>>, <<3655, 3662, 0>>,
    <<3761, 3761, 0>>, <<3764, 3772, 0>>, <<3784, 3790, 0>>, <<3864, 3865, 0>>,
    <<3893, 3893, 0>>, <<3895, 3895, 0>>, <<3897, 3897, 0>>, <<3953, 3966, 0>>,
    <<3968, 3972, 0>>, <<3974, 3975, 0>>, <<3981, 3991, 0>>, <<3993, 4028, 0>>,
    <<4038, 4038, 0>>, <<4141, 4144, 0>>, <<4146, 4151, 0>>, <<4153, 4154, 0>>,
    <<4157, 4158, 0>>, <<4184, 4185, 0>>, <<4190, 4192, 0>>, <<4209, 4212, 0>>,
    <<4226, 4226, 0>>, <<4229, 4230, 0>>, <<4237, 4237, 0>>, <<4253, 4253, 0>>,
    <<4352, 4447, 2>>, <<4448, 4607, 0>>, <<4957, 4959, 0>>, <<5906, 5908, 0>>,
    <<5938, 5939, 0>>, <<5970, 5971, 0>>, <<6002, 6003, 0>>, <<6052, 6052, 2>>,
    <<6068, 6069, 0>>, <<6071, 6077, 0>>, <<6086, 6086, 0>>, <<6089, 6099, 0>>,
    <<6104, 6104, 3>>, <<6109, 6109, 0>>, <<6155, 6159, 0>>, <<6277, 6278, 0>>,
    <<6313, 6313, 0>>, <<6432, 6434, 0>>, <<6439, 6440, 0>>, <<6450, 6450, 0>>,
    <<6457, 6459, 0>>, <<6679, 6680, 0>>, <<6683, 6683, 0>>, <<6742, 6742, 0>>,
    <<6744, 6750, 0>>, <<6752, 6752, 0>>, <<6754, 6754, 0>>, <<6757, 6764, 0>>,
    <<6771, 6780, 0>>, <<6783, 6783, 0>>, <<6832, 6862, 0>>, <<6912, 6915, 0>>,
    <<6964, 6973, 0>>, <<6978, 6979, 0>>, <<7019, 7027, 0>>, <<7040, 7041, 0>>,
    <<7074, 7077, 0>>, <<7080, 7081, 0>>, <<7083, 7085, 0>>, <<7142, 7142, 0>>,
    <<7144, 7145, 0>>, <<7149, 7149, 0>>, <<7151, 7153, 0>>, <<7212, 7219, 0>>,
    <<7222, 7223, 0>>, <<7376, 7378, 0>>, <<7380, 7392, 0>>, <<7394, 7400, 0>>,
    <<7405, 7405, 0>>, <<7412, 7412, 0>>, <<7416, 7417, 0>>, <<7616, 7679, 0>>,
    <<8203, 8207, 0>>, <<8234, 8238, 0>>, <<8288, 8303, 0>>, <<8400, 8432, 0>>,
    <<8986, 8987, 2>>, <<9001, 9002, 2>>, <<9193, 9196, 2>>, <<9200, 9200, 2>>,
    <<9203, 9203, 2>>, <<9725, 9726, 2>>, <<9748, 9749, 2>>, <<9800, 9811, 2>>,
    <<9855, 9855, 2>>, <<9875, 9875, 2>>, <<9889, 9889, 2>>, <<9898, 9899, 2>>,
    <<9917, 9918, 2>>, <<9924, 9925, 2>>, <<9934, 9934, 2>>, <<9940, 9940, 2>>,
    <<9962, 9962, 2>>, <<9970, 9971, 2>>, <<9973, 9973, 2>>, <<9978, 9978, 2>>,
    <<9981, 9981, 2>>, <<9989, 9989, 2>>, <<9994, 9995, 2>>, <<10024, 10024, 2>>,
    <<10060, 10060, 2>>, <<10062, 10062, 2>>, <<10067, 10069, 2>>, <<10071, 10071, 2>>,
    <<10133, 10135, 2>>, <<10160, 10160, 2>>, <<10175, 10175, 2>>, <<11035, 11036, 2>>,
    <<11088, 11088, 2>>, <<11093, 11093, 2>>, <<11503, 11505, 0>>, <<11744, 11775, 0>>,
    <<11904, 11929, 2>>, <<11931, 12019, 2>>, <<12032, 12245, 2>>, <<12272, 12329, 2>>,
    <<12330, 12335, 0>>, <<12336, 12350, 2>>, <<12353, 12438, 2>>, <<12441, 12442, 0>>,
    <<12443, 12543, 2>>, <<12549, 12591, 2>>, <<12593, 12643, 2>>, <<12644, 12644, 0>>,
    <<12645, 12686, 2>>, <<12688, 12771, 2>>, <<12783, 12830, 2>>, <<12832, 12871, 2>>,
    <<12880, 19903, 2>>, <<19968, 42124, 2>>, <<42128, 42182, 2>>, <<42607, 42610, 0>>,
    <<42612, 42621, 0>>, <<42654, 42655, 0>>, <<42736, 42737, 0>>, <<43010, 43010, 0>>,
    <<43014, 43014, 0>>, <<43019, 43019, 0>>, <<43045, 43046, 0>>, <<43052, 43052, 0>>,
    <<43204, 43205, 0>>, <<43232, 43249, 0>>, <<43258, 43258, 0>>, <<43263, 43263, 0>>,
    <<43302, 43309, 0>>, <<43335, 43345, 0>>, <<43360, 43388, 2>>, <<43392, 43394, 0>>,
    <<43443, 43443, 0>>, <<43446, 43449, 0>>, <<43452, 43453, 0>>, <<43493, 43493, 0>>,
    <<43561, 43566, 0>>, <<43569, 43570, 0>>, <<43573, 43574, 0>>, <<43587, 43587, 0>>,
    <<43596, 43596, 0>>, <<43644, 43644, 0>>, <<43696, 43696, 0>>, <<43698, 43700, 0>>,
    <<43703, 43704, 0>>, <<43710, 43711, 0>>, <<43713, 43713, 0>>, <<43756, 43757, 0>>,
    <<43766, 43766, 0>>, <<44005, 44005, 0>>, <<44008, 44008, 0>>, <<44013, 44013, 0>>,
    <<44032, 55203, 2>>, <<55216, 55238, 0>>, <<55243, 55291, 0>>, <<63744, 64255, 2>>,
    <<64286, 64286, 0>>, <<65024, 65039, 0>>, <<65040, 65049, 2>>, <<65056, 65071, 0>>,
    <<65072, 65106, 2>>, <<65108, 65126, 2>>, <<65128, 65131, 2>>, <<65279, 65279, 0>>,
    <<65281, 65376, 2>>, <<65438, 65440, 0>>, <<65504, 65510, 2>>, <<65520, 65528, 0>>,
    <<66045, 66045, 0>>, <<66272, 66272, 0>>, <<66422, 66426, 0>>, <<68097, 68099, 0>>,
    <<68101, 68102, 0>>, <<68108, 68111, 0>>, <<68152, 68154, 0>>, <<68159, 68159, 0>>,
    <<68325, 68326, 0>>, <<68900, 68903, 0>>, <<69291, 69292, 0>>, <<69373, 69375, 0>>,
    <<69446, 69456, 0>>, <<69506, 69509, 0>>, <<69633, 69633, 0>>, <<69688, 69702, 0>>,
    <<69744, 69744, 0>>, <<69747, 69748, 0>>, <<69759, 69761, 0>>, <<69811, 69814, 0>>,
    <<69817, 69818, 0>>, <<69826, 69826, 0>>, <<69888, 69890, 0>>, <<69927, 69931, 0>>,
    <<69933, 69940, 0>>, <<70003, 70003, 0>>, <<70016, 70017, 0>>, <<70070, 70078, 0>>,
    <<70082, 70083, 0>>, <<70089, 70092, 0>>, <<70095, 70095, 0>>, <<70191, 70193, 0>>,
    <<70196, 70196, 0>>, <<70198, 70199, 0>>, <<70206, 70206, 0>>, <<70209, 70209, 0>>,
    <<70367, 70367, 0>>, <<70371, 70378, 0>>, <<70400, 70401, 0>>, <<70459, 70460, 0>>,
    <<70462, 70462, 0>>, <<70464, 70464, 0>>, <<70487, 70487, 0>>, <<70502, 70508, 0>>,
    <<70512, 70516, 0>>, <<70712, 70719, 0>>, <<70722, 70724, 0>>, <<70726, 70726, 0>>,
    <<70750, 70750, 0>>, <<70832, 70832, 0>>, <<70835, 70840, 0>>, <<70842, 70842, 0>>,
    <<70845, 70845, 0>>, <<70847, 70848, 0>>, <<70850, 70851, 0>>, <<71087, 71087, 0>>,
    <<71090, 71093, 0>>, <<71100, 71101, 0>>, <<71103, 71104, 0>>, <<71132, 71133, 0>>,
    <<71219, 71226, 0>>, <<71229, 71229, 0>>, <<71231, 71232, 0>>, <<71339, 71339, 0>>,
    <<71341, 71341, 0>>, <<71344, 71349, 0>>, <<71351, 71351, 0>>, <<71453, 71455, 0>>,
    <<71458, 71461, 0>>, <<71463, 71467, 0>>, <<71727, 71735, 0>>, <<71737, 71738, 0>>,
    <<71984, 71984, 0>>, <<71995, 71996, 0>>, <<71998, 71999, 0>>, <<72001, 72001, 0>>,
    <<72003, 72003, 0>>, <<72148, 72151, 0>>, <<72154, 72155, 0>>, <<72160, 72160, 0>>,
    <<72193, 72202, 0>>, <<72243, 72248, 0>>, <<72250, 72254, 0>>, <<72263, 72263, 0>>,
    <<72273, 72278, 0>>, <<72281, 72283, 0>>, <<72324, 72342, 0>>, <<72344, 72345, 0>>,
    <<72752, 72758, 0>>, <<72760, 72765, 0>>, <<72767, 72767, 0>>, <<72850, 72871, 0>>,
    <<72874, 72880, 0>>, <<72882, 72883, 0>>, <<72885, 72886, 0>>, <<73009, 73014, 0>>,
    <<73018, 73018, 0>>, <<73020, 73021, 0>>, <<73023, 73031, 0>>, <<73104, 73105, 0>>,
    <<73109, 73109, 0>>, <<73111, 73111, 0>>, <<73459, 73460, 0>>, <<73472, 73474, 0>>,
    <<73526, 73530, 0>>, <<73536, 73536, 0>>, <<73538, 73538, 0>>, <<78912, 78912, 0>>,
    <<78919, 78933, 0>>, <<92912, 92916, 0>>, <<92976, 92982, 0>>, <<94031, 94031, 0>>,
    <<94095, 94098, 0>>, <<94176, 94179, 2>>, <<94180, 94180, 0>>, <<94192, 94193, 2>>,
    <<94208, 100343, 2>>, <<100352, 101589, 2>>, <<101632, 101640, 2>>, <<110576, 110579, 2>>,
    <<110581, 110587, 2>>, <<110589, 110590, 2>>, <<110592, 110882, 2>>, <<110898, 110898, 2>>,
    <<110928, 110930, 2>>, <<110933, 110933, 2>>, <<110948, 110951, 2>>, <<110960, 111355, 2>>,
    <<113821, 113822, 0>>, <<113824, 113827, 0>>, <<118528, 118573, 0>>, <<118576, 118598, 0>>,
    <<119141, 119141, 0>>, <<119143, 119145, 0>>, <<119150, 119170, 0>>, <<119173, 119179, 0>>,
    <<119210, 119213, 0>>, <<119362, 119364, 0>>, <<121344, 121398, 0>>, <<121403, 121452, 0>>,
    <<121461, 121461, 0>>, <<121476, 121476, 0>>, <<121499, 121503, 0>>, <<121505, 121519, 0>>,
    <<122880, 122886, 0>>, <<122888, 122904, 0>>, <<122907, 122913, 0>>, <<122915, 122916, 0>>,
    <<122918, 122922, 0>>, <<123023, 123023, 0>>, <<123184, 123190, 0>>, <<123566, 123566, 0>>,
    <<123628, 123631, 0>>, <<124140, 124143, 0>>, <<125136, 125142, 0>>, <<125252, 125258, 0>>,
    <<126980, 126980, 2>>, <<127183, 127183, 2>>, <<127374, 127374, 2>>, <<127377, 127386, 2>>,
    <<127488, 127490, 2>>, <<127504, 127547, 2>>, <<127552, 127560, 2>>, <<127568, 127569, 2>>,
    <<127584, 127589, 2>>, <<127744, 127776, 2>>, <<127789, 127797, 2>>, <<127799, 127868, 2>>,
    <<127870, 127891, 2>>, <<127904, 127946, 2>>, <<127951, 127955, 2>>, <<127968, 127984, 2>>,
    <<127988, 127988, 2>>, <<127992, 128062, 2>>, <<128064, 128064, 2>>, <<128066, 128252, 2>>,
    <<128255, 128317, 2>>, <<128331, 128334, 2>>, <<128336, 128359, 2>>, <<128378, 128378, 2>>,
    <<128405, 128406, 2>>, <<128420, 128420, 2>>, <<128507, 128591, 2>>, <<128640, 128709, 2>>,
    <<128716, 128716, 2>>, <<128720, 128722, 2>>, <<128725, 128727, 2>>, <<128732, 128735, 2>>,
    <<128747, 128748, 2>>, <<128756, 128764, 2>>, <<128992, 129003, 2>>, <<129008, 129008, 2>>,
    <<129292, 129338, 2>>, <<129340, 129349, 2>>, <<129351, 129535, 2>>, <<129648, 129660, 2>>,
    <<129664, 129672, 2>>, <<129680, 129725, 2>>, <<129727, 129733, 2>>, <<129742, 129755, 2>>,
    <<129760, 129768, 2>>, <<129776, 129784, 2>>, <<131072, 196605, 2>>, <<196608, 262141, 2>>,
    <<917504, 921599, 0>>
>>

\* The width the table gives to ch, by bisection of WIDTH_TABLE[lo..hi].
RECURSIVE width_lookup(_, _, _)
width_lookup(ch, lo, hi) ==
    IF lo > hi THEN 1
    ELSE IF ch < WIDTH_TABLE[(lo + hi) \div 2][1]
         THEN width_lookup(ch, lo, ((lo + hi) \div 2) - 1)
    ELSE IF ch > WIDTH_TABLE[(lo + hi) \div 2][2]
         THEN width_lookup(ch, ((lo + hi) \div 2) + 1, hi)
    ELSE WIDTH_TABLE[(lo + hi) \div 2][3]

\* UnicodeWidthChar::width(ch).unwrap_or(1): None for the control characters
\* (C0, DEL and C1), the table's width otherwise.
char_width(ch) ==
    IF ch < 32 \/ (ch >= 127 /\ ch < 160) THEN 1
    ELSE IF ch < 173 THEN 1
    ELSE width_lookup(ch, 1, Len(WIDTH_TABLE))

map_dec_special(ch) ==
    CASE ch = 106 -> 9496
      [] ch = 107 -> 9488
      [] ch = 108 -> 9484
      [] ch = 109 -> 9492
      [] ch = 110 -> 9532
      [] ch = 113 -> 9472
      [] ch = 116 -> 9500
      [] ch = 117 -> 9508
      [] ch = 118 -> 9524
      [] ch = 119 -> 9516
      [] ch = 120 -> 9474
      [] ch = 121 -> 8804
      [] ch = 122 -> 8805
      [] ch = 123 -> 960
      [] ch = 124 -> 8800
      [] ch = 125 -> 163
      [] ch = 126 -> 183
      [] OTHER -> ch

\* ---------------------------------------------------------------- colours
ColorDefault == [k |-> "Default", v |-> 0]
Ansi(i) == [k |-> "Ansi", v |-> i]
Xterm(i) == [k |-> "Xterm", v |-> i]
Rgb(c) == [k |-> "Rgb", v |-> c]

from_rgb(r, g, b) == (r * 65536) + (g * 256) + b

\* ------------------------------------------------------------------ cells
Cell_default ==
    [ch |-> SPACE, fg_kind |-> ColorDefault, bg_kind |-> ColorDefault,
     underline |-> FALSE, cont |-> FALSE]

\* vec![Cell::default(); n]
vec_cells(n) == [i \in 0..(n - 1) |-> Cell_default]

\* Vec::new()
vec_empty == [i \in {} |-> Cell_default]

\* Vec::len()
len(cells) == Cardinality(DOMAIN cells)

None == <<>>
Some(x) == <<x>>

\* vte::Parser::new()
Parser_new ==
    [state |-> "Ground", params |-> <<>>, param |-> 0, sub |-> FALSE, plen |-> 0,
     intermediates |-> <<>>, ignoring |-> FALSE,
     osc |-> <<>>, osc_cur |-> <<>>, osc_len |-> 0,
     utf8_need |-> 0, utf8_acc |-> 0, utf8_first |-> FALSE, utf8_lead |-> 0]

\* --------------------------------------------------------- TerminalGrid
new(c, r) ==
    LET cols == Max(c, 1)
        rows == Max(r, 1)
    IN  [cols |-> cols,
         rows |-> rows,
         cells |-> vec_cells(cols * rows),
         cursor_row |-> 0,
         cursor_col |-> 0,
         saved_cursor |-> <<0, 0>>,
         scroll_top |-> 0,
         scroll_bottom |-> rows - 1,
         alt_cells |-> vec_empty,
         alt_cursor_row |-> 0,
         alt_cursor_col |-> 0,
         alt_saved_cursor |-> <<0, 0>>,
         alt_scroll_top |-> 0,
         alt_scroll_bottom |-> rows - 1,
         in_alt |-> FALSE,
         cursor_visible |-> TRUE,
         saved_cursor_1049 |-> None,
         parser |-> Parser_new,
         cur_fg_kind |-> ColorDefault,
         cur_bg_kind |-> ColorDefault,
         cur_bold |-> FALSE,
         cur_underline |-> FALSE,
         cur_inverse |-> FALSE,
         g0 |-> "Ascii",
         g1 |-> "Ascii",
         use_g1 |-> FALSE,
         last_printable |-> None,
         default_fg |-> DEFAULT_FG,
         default_bg |-> DEFAULT_BG,
         cursor_color |-> None,
         palette |-> <<>>,
         panicked |-> FALSE]

\* A panic of the handler: the grid is left as it was and the ghost flag set.
Panic(g) == [g EXCEPT !.panicked = TRUE]

cursor_pos(g) == <<g.cursor_row, g.cursor_col>>

cell_index(g, row, col) == (row * g.cols) + col

effective_color_kinds(g) ==
    LET fg == IF g.cur_bold /\ g.cur_fg_kind.k = "Ansi" /\ g.cur_fg_kind.v < 8
              THEN Ansi(g.cur_fg_kind.v + 8)
              ELSE g.cur_fg_kind
        bg == g.cur_bg_kind
    IN  IF g.cur_inverse THEN <<bg, fg>> ELSE <<fg, bg>>

current_cell_attrs(g) ==
    LET k == effective_color_kinds(g)
    IN  <<k[1], k[2], g.cur_underline>>

\* The cell written by the loops `cell.ch = ' '; cell.fg_kind = ...; cell.cont = false`.
blank_cell(g) ==
    LET a == current_cell_attrs(g)
    IN  [ch |-> SPACE, fg_kind |-> a[1], bg_kind |-> a[2], underline |-> a[3],
         cont |-> FALSE]

\* `for cell in &mut self.cells[lo..hi] { blank }`: the slice panics when
\* lo > hi or hi > len.
fill_blank(g, lo, hi) ==
    IF lo < 0 \/ lo > hi \/ hi > len(g.cells) THEN Panic(g)
    ELSE LET b == blank_cell(g)
         IN  [g EXCEPT !.cells =
                [i \in DOMAIN g.cells |-> IF i >= lo /\ i < hi THEN b ELSE g.cells[i]]]

\* self.cells.copy_within(lo..hi, dst): panics when the range or the
\* destination leaves the vector.
copy_within(g, lo, hi, dst) ==
    IF lo < 0 \/ lo > hi \/ hi > len(g.cells) \/ dst < 0
          \/ dst + (hi - lo) > len(g.cells)
    THEN Panic(g)
    ELSE [g EXCEPT !.cells =
            [i \in DOMAIN g.cells |->
                IF i >= dst /\ i < dst + (hi - lo) THEN g.cells[lo + (i - dst)]
                ELSE g.cells[i]]]

set_cell(g, row, col, ch, fg_kind, bg_kind, underline, cont) ==
    IF row < g.rows /\ col < g.cols
    THEN LET idx == cell_index(g, row, col)
         IN  IF idx < 0 \/ idx >= len(g.cells) THEN Panic(g)
             ELSE [g EXCEPT !.cells[idx] =
                     [ch |-> ch, fg_kind |-> fg_kind, bg_kind |-> bg_kind,
                      underline |-> underline, cont |-> cont]]
    ELSE g

set_blank_cell(g, row, col) ==
    LET a == current_cell_attrs(g)
    IN  set_cell(g, row, col, SPACE, a[1], a[2], a[3], FALSE)

clear(g) ==
    LET b == blank_cell(g)
    IN  [g EXCEPT !.cells = [i \in DOMAIN g.cells |-> b],
                  !.cursor_row = 0,
                  !.cursor_col = 0]

\* Faulty variant of current_charset: G0 whatever SI/SO selected.
current_charset_g0(g) == g.g0

\* --------------------------------------------------------------- charsets
current_charset(g) == IF g.use_g1 THEN g.g1 ELSE g.g0

select_charset(g, slot, designator) ==
    LET set == IF designator = 48 THEN "DecSpecial" ELSE "Ascii"
    IN  IF slot = 40 THEN [g EXCEPT !.g0 = set]
        ELSE IF slot = 41 THEN [g EXCEPT !.g1 = set]
        ELSE g

map_charset_char(g, ch) ==
    IF current_charset(g) = "Ascii" THEN ch ELSE map_dec_special(ch)

\* -------------------------------------------------------------- scrolling
\* One pass of the outer loop of scroll_up: the inner loop copies row r to
\* row r-1 for r = top+1..bottom in ascending order (each source row is
\* still unmodified when it is read), which is one block move; then the
\* bottom row is blanked.
scroll_up_once(g, top, bottom) ==
    LET moved == copy_within(g, (top + 1) * g.cols, (bottom + 1) * g.cols, top * g.cols)
    IN  IF moved.panicked THEN moved
        ELSE fill_blank(moved, bottom * g.cols, (bottom * g.cols) + g.cols)

RECURSIVE scroll_up_loop(_, _, _, _)
scroll_up_loop(g, top, bottom, lines) ==
    IF lines = 0 \/ g.panicked THEN g
    ELSE scroll_up_loop(scroll_up_once(g, top, bottom), top, bottom, lines - 1)

\* Faulty variant of scroll_up: the whole screen scrolls, whatever the region.
scroll_up_whole(g, lines) ==
    IF g.rows < 1 THEN Panic(g)
    ELSE IF 0 >= g.rows - 1 THEN g
    ELSE scroll_up_loop(g, 0, g.rows - 1, lines)

scroll_up(g, lines) ==
    LET top == Min(g.scroll_top, g.rows - 1)
        bottom == Min(g.scroll_bottom, g.rows - 1)
    IN  IF g.rows < 1 THEN Panic(g)
        ELSE IF top >= bottom THEN g
        ELSE scroll_up_loop(g, top, bottom, lines)

\* One pass of the outer loop of scroll_down: rows top..bottom-1 are copied
\* one row down in descending order (one block move), then row top is
\* blanked.
scroll_down_once(g, top, bottom) ==
    LET moved == copy_within(g, top * g.cols, bottom * g.cols, (top + 1) * g.cols)
    IN  IF moved.panicked THEN moved
        ELSE fill_blank(moved, top * g.cols, (top * g.cols) + g.cols)

RECURSIVE scroll_down_loop(_, _, _, _)
scroll_down_loop(g, top, bottom, lines) ==
    IF lines = 0 \/ g.panicked THEN g
    ELSE scroll_down_loop(scroll_down_once(g, top, bottom), top, bottom, lines - 1)

scroll_down(g, lines) ==
    LET top == Min(g.scroll_top, g.rows - 1)
        bottom == Min(g.scroll_bottom, g.rows - 1)
    IN  IF g.rows < 1 THEN Panic(g)
        ELSE IF top >= bottom THEN g
        ELSE scroll_down_loop(g, top, bottom, lines)

newline(g) ==
    IF g.cursor_row >= g.scroll_bottom THEN scroll_up(g, 1)
    ELSE [g EXCEPT !.cursor_row = @ + 1]

carriage_return(g) == [g EXCEPT !.cursor_col = 0]

next_line(g, n0) ==
    LET n == Max(n0, 1)
    IN  [g EXCEPT !.cursor_row = Min(g.cursor_row + n, g.rows - 1), !.cursor_col = 0]

prev_line(g, n0) ==
    LET n == Max(n0, 1)
    IN  [g EXCEPT !.cursor_row = saturating_sub(g.cursor_row, n), !.cursor_col = 0]

backspace(g) ==
    IF g.cursor_col > 0 THEN [g EXCEPT !.cursor_col = @ - 1] ELSE g

\* The while loop of tab(): blank cells from the cursor up to the next tab
\* stop or the end of the line, whichever comes first.
RECURSIVE tab_loop(_, _, _)
tab_loop(g, next, a) ==
    IF g.cursor_col < g.cols /\ g.cursor_col < next /\ ~g.panicked
    THEN tab_loop([set_cell(g, g.cursor_row, g.cursor_col, SPACE, a[1], a[2], a[3], FALSE)
                      EXCEPT !.cursor_col = @ + 1], next, a)
    ELSE g

tab(g) ==
    LET next == ((g.cursor_col \div TAB_SIZE) + 1) * TAB_SIZE
        g1 == tab_loop(g, next, current_cell_attrs(g))
    IN  IF g1.panicked THEN Panic(g)
        ELSE IF g1.cursor_col >= g1.cols THEN newline([g1 EXCEPT !.cursor_col = 0])
        ELSE g1

\* ---------------------------------------------------------------- printing
clear_wide_at(g, row, col) ==
    IF row >= g.rows \/ col >= g.cols THEN g
    ELSE LET idx == cell_index(g, row, col)
         IN  IF idx >= len(g.cells) THEN Panic(g)
             ELSE LET g1 == IF g.cells[idx].cont
                            THEN [(IF col > 0 THEN set_blank_cell(g, row, col - 1) ELSE g)
                                     EXCEPT !.cells[idx].cont = FALSE]
                            ELSE g
                  IN  IF col + 1 < g.cols
                      THEN IF idx + 1 >= len(g.cells) THEN Panic(g)
                           ELSE IF g1.cells[idx + 1].cont
                                THEN set_blank_cell(g1, row, col + 1)
                                ELSE g1
                      ELSE g1

\* The tail of put_char: `if self.cursor_col >= self.cols { col = 0; newline }`.
put_char_wrap(g) ==
    IF g.cursor_col >= g.cols THEN newline([g EXCEPT !.cursor_col = 0]) ELSE g

put_char_wide(g, ch, a) ==
    LET wrap == g.cursor_col + 1 >= g.cols
        g1 == IF wrap THEN newline([g EXCEPT !.cursor_col = 0]) ELSE g
    IN  IF wrap /\ g1.cursor_row >= g1.rows THEN g1
        ELSE LET row == g1.cursor_row
                 col == g1.cursor_col
                 g2 == clear_wide_at(g1, row, col)
                 g3 == set_cell(g2, row, col, ch, a[1], a[2], a[3], FALSE)
                 g4 == IF col + 1 < g3.cols
                       THEN set_cell(clear_wide_at(g3, row, col + 1), row, col + 1,
                                     SPACE, a[1], a[2], a[3], TRUE)
                       ELSE g3
                 g5 == [g4 EXCEPT !.cursor_col = @ + 2, !.last_printable = Some(ch)]
             IN  put_char_wrap(g5)

put_char_narrow(g, ch, a) ==
    LET g1 == clear_wide_at(g, g.cursor_row, g.cursor_col)
        g2 == set_cell(g1, g.cursor_row, g.cursor_col, ch, a[1], a[2], a[3], FALSE)
        g3 == [g2 EXCEPT !.cursor_col = @ + 1, !.last_printable = Some(ch)]
    IN  put_char_wrap(g3)

put_char(g, ch) ==
    IF g.cursor_row >= g.rows \/ g.cursor_col >= g.cols THEN g
    ELSE LET a == current_cell_attrs(g)
             width == char_width(ch)
             r == IF width = 0 THEN g
                  ELSE IF width >= 2 THEN put_char_wide(g, ch, a)
                  ELSE put_char_narrow(g, ch, a)
         IN  IF r.panicked THEN Panic(g) ELSE r

\* ------------------------------------------------- insert / delete / erase
\* `for col in c0..c1 { self.set_cell(row, col, ' ', attrs, false) }`
RECURSIVE set_blank_range(_, _, _, _, _)
set_blank_range(g, row, c0, c1, a) ==
    IF c0 >= c1 \/ g.panicked THEN g
    ELSE set_blank_range(set_cell(g, row, c0, SPACE, a[1], a[2], a[3], FALSE),
                         row, c0 + 1, c1, a)

\* One pass of the outer loop of insert_lines: rows cursor_row..scroll_bottom-1
\* move one row down (descending copies, one block move; no copy at all when
\* the cursor is on the bottom margin), then the cursor row is blanked.
insert_lines_once(g) ==
    LET moved == IF g.cursor_row < g.scroll_bottom
                 THEN copy_within(g, g.cursor_row * g.cols, g.scroll_bottom * g.cols,
                                  (g.cursor_row + 1) * g.cols)
                 ELSE g
    IN  IF moved.panicked THEN moved
        ELSE fill_blank(moved, g.cursor_row * g.cols, (g.cursor_row * g.cols) + g.cols)

RECURSIVE insert_lines_loop(_, _)
insert_lines_loop(g, n) ==
    IF n = 0 \/ g.panicked THEN g ELSE insert_lines_loop(insert_lines_once(g), n - 1)

\* Faulty variant of insert_lines: the lines are inserted at the top margin
\* instead of at the cursor row (a plain scroll-down of the region).
insert_lines_from_top(g, n0) ==
    IF g.cursor_row < g.scroll_top \/ g.cursor_row > g.scroll_bottom THEN g
    ELSE scroll_down(g, n0)

insert_lines(g, n0) ==
    IF g.cursor_row < g.scroll_top \/ g.cursor_row > g.scroll_bottom THEN g
    ELSE LET r == insert_lines_loop(g, Min(n0, (g.scroll_bottom - g.cursor_row) + 1))
         IN  IF r.panicked THEN Panic(g) ELSE r

\* One pass of the outer loop of delete_lines: rows cursor_row+1..scroll_bottom
\* move one row up (ascending copies, one block move), then the bottom
\* margin row is blanked.
delete_lines_once(g) ==
    LET moved == IF g.cursor_row < g.scroll_bottom
                 THEN copy_within(g, (g.cursor_row + 1) * g.cols,
                                  (g.scroll_bottom + 1) * g.cols, g.cursor_row * g.cols)
                 ELSE g
    IN  IF moved.panicked THEN moved
        ELSE fill_blank(moved, g.scroll_bottom * g.cols,
                        (g.scroll_bottom * g.cols) + g.cols)

RECURSIVE delete_lines_loop(_, _)
delete_lines_loop(g, n) ==
    IF n = 0 \/ g.panicked THEN g ELSE delete_lines_loop(delete_lines_once(g), n - 1)

delete_lines(g, n0) ==
    IF g.cursor_row < g.scroll_top \/ g.cursor_row > g.scroll_bottom THEN g
    ELSE LET r == delete_lines_loop(g, Min(n0, (g.scroll_bottom - g.cursor_row) + 1))
         IN  IF r.panicked THEN Panic(g) ELSE r

\* Faulty variant of insert_chars: the count is not limited to the columns
\* left in the line (`n.min(self.cols - self.cursor_col)` dropped).
insert_chars_unclamped(g, n0) ==
    LET row == g.cursor_row
    IN  IF row >= g.rows \/ g.cursor_col >= g.cols THEN g
        ELSE LET n == n0
                 line_start == row * g.cols
                 line_end == line_start + g.cols
                 moved == copy_within(g, line_start + g.cursor_col, line_end - n,
                                      line_start + g.cursor_col + n)
                 r == set_blank_range(moved, row, g.cursor_col, g.cursor_col + n,
                                      current_cell_attrs(g))
             IN  IF r.panicked THEN Panic(g) ELSE r

insert_chars(g, n0) ==
    LET row == g.cursor_row
    IN  IF row >= g.rows \/ g.cursor_col >= g.cols THEN g
        ELSE LET n == Min(n0, g.cols - g.cursor_col)
                 line_start == row * g.cols
                 line_end == line_start + g.cols
                 moved == copy_within(g, line_start + g.cursor_col, line_end - n,
                                      line_start + g.cursor_col + n)
                 r == set_blank_range(moved, row, g.cursor_col, g.cursor_col + n,
                                      current_cell_attrs(g))
             IN  IF r.panicked THEN Panic(g) ELSE r

delete_chars(g, n0) ==
    LET row == g.cursor_row
    IN  IF row >= g.rows \/ g.cursor_col >= g.cols THEN g
        ELSE LET n == Min(n0, g.cols - g.cursor_col)
                 line_start == row * g.cols
                 line_end == line_start + g.cols
                 moved == copy_within(g, line_start + g.cursor_col + n, line_end,
                                      line_start + g.cursor_col)
                 r == IF g.cols - n < 0 THEN Panic(g)
                      ELSE set_blank_range(moved, row, g.cols - n, g.cols,
                                           current_cell_attrs(g))
             IN  IF r.panicked THEN Panic(g) ELSE r

erase_chars(g, n0) ==
    LET row == g.cursor_row
    IN  IF row >= g.rows \/ g.cursor_col >= g.cols THEN g
        ELSE LET n == Min(n0, g.cols - g.cursor_col)
                 r == set_blank_range(g, row, g.cursor_col, g.cursor_col + n,
                                      current_cell_attrs(g))
             IN  IF r.panicked THEN Panic(g) ELSE r

RECURSIVE repeat_loop(_, _, _)
repeat_loop(g, ch, n) ==
    IF n = 0 \/ g.panicked THEN g ELSE repeat_loop(put_char(g, ch), ch, n - 1)

repeat_last(g, n) ==
    IF g.last_printable = None THEN g
    ELSE repeat_loop(g, g.last_printable[1], Max(n, 1))

erase_display(g, mode) ==
    IF mode = 2 \/ mode = 3 THEN clear(g)
    ELSE IF mode = 0
         THEN fill_blank(g, cell_index(g, g.cursor_row, g.cursor_col), len(g.cells))
    ELSE IF mode = 1
         THEN LET idx == cell_index(g, g.cursor_row, g.cursor_col)
              IN  IF idx >= len(g.cells) THEN Panic(g) ELSE fill_blank(g, 0, idx + 1)
    ELSE g

erase_line(g, mode) ==
    LET row_start == g.cursor_row * g.cols
    IN  IF mode = 2 THEN fill_blank(g, row_start, row_start + g.cols)
        ELSE IF mode = 0 THEN fill_blank(g, row_start + g.cursor_col, row_start + g.cols)
        ELSE IF mode = 1
             THEN IF row_start + g.cursor_col >= len(g.cells) THEN Panic(g)
                  ELSE fill_blank(g, row_start, row_start + g.cursor_col + 1)
        ELSE g

\* ------------------------------------------------------------- parameters
\* A vte Params value is modelled by the sequence of the first subparameter
\* of each parameter (u16), which is all the handlers read.
param(params, idx, default) ==
    IF idx < Len(params) THEN params[idx + 1] ELSE default

csi_count(params, idx) ==
    LET n == param(params, idx, 1)
    IN  IF n = 0 THEN 1 ELSE n

csi_position(params, idx, max) ==
    LET v0 == param(params, idx, 1)
        v == IF v0 = 0 THEN 1 ELSE v0
    IN  Min(saturating_sub(v, 1), max)

\* -------------------------------------------------------------------- SGR
reset_attributes(g) ==
    [g EXCEPT !.cur_fg_kind = ColorDefault,
              !.cur_bg_kind = ColorDefault,
              !.cur_bold = FALSE,
              !.cur_underline = FALSE,
              !.cur_inverse = FALSE]

\* The arm `38 | 48` of apply_sgr at index i (0-based): the grid after it and
\* the index the arm leaves in i.
sgr_extended(g, pv, i) ==
    LET is_fg == pv[i + 1] = 38
        n == Len(pv)
    IN  IF i + 1 < n /\ pv[i + 2] = 5 /\ i + 2 < n
        THEN <<IF is_fg THEN [g EXCEPT !.cur_fg_kind = Xterm(pv[i + 3] % 256)]
                        ELSE [g EXCEPT !.cur_bg_kind = Xterm(pv[i + 3] % 256)],
               i + 2>>
        ELSE IF i + 1 < n /\ pv[i + 2] = 2 /\ i + 4 < n
        THEN LET c == from_rgb(pv[i + 3] % 256, pv[i + 4] % 256, pv[i + 5] % 256)
             IN  <<IF is_fg THEN [g EXCEPT !.cur_fg_kind = Rgb(c)]
                            ELSE [g EXCEPT !.cur_bg_kind = Rgb(c)],
                   i + 4>>
        ELSE <<g, i>>

\* One arm of the match in apply_sgr for a code that takes no arguments.
sgr_code(g, code) ==
    IF code = 0 THEN reset_attributes(g)
    ELSE IF code = 1 \/ code = 3 THEN g
    ELSE IF code = 4 THEN [g EXCEPT !.cur_underline = TRUE]
    ELSE IF code = 7 THEN [g EXCEPT !.cur_inverse = TRUE]
    ELSE IF code = 22 \/ code = 23 THEN g
    ELSE IF code = 24 THEN [g EXCEPT !.cur_underline = FALSE]
    ELSE IF code = 27 THEN [g EXCEPT !.cur_inverse = FALSE]
    ELSE IF code >= 30 /\ code <= 37 THEN [g EXCEPT !.cur_fg_kind = Ansi((code - 30) % 256)]
    ELSE IF code >= 40 /\ code <= 47 THEN [g EXCEPT !.cur_bg_kind = Ansi((code - 40) % 256)]
    ELSE IF code >= 90 /\ code <= 97
         THEN [g EXCEPT !.cur_fg_kind = Ansi(((code - 90) + 8) % 256)]
    ELSE IF code >= 100 /\ code <= 107
         THEN [g EXCEPT !.cur_bg_kind = Ansi(((code - 100) + 8) % 256)]
    ELSE IF code = 39 THEN [g EXCEPT !.cur_fg_kind = ColorDefault]
    ELSE IF code = 49 THEN [g EXCEPT !.cur_bg_kind = ColorDefault]
    ELSE g

\* The while loop of apply_sgr, i 0-based.
RECURSIVE sgr_loop(_, _, _)
sgr_loop(g, pv, i) ==
    IF i >= Len(pv) THEN g
    ELSE IF pv[i + 1] = 38 \/ pv[i + 1] = 48
         THEN LET r == sgr_extended(g, pv, i)
              IN  sgr_loop(r[1], pv, r[2] + 1)
         ELSE sgr_loop(sgr_code(g, pv[i + 1]), pv, i + 1)

apply_sgr(g, params) ==
    IF Len(params) = 0 THEN reset_attributes(g)
    ELSE sgr_loop(g, params, 0)

\* ---------------------------------------------------------- scroll region
\* Faulty variant of set_scroll_region: the margins are stored without the
\* `top < bottom` test.
set_scroll_region_unchecked(g, params) ==
    LET top0 == param(params, 0, 1)
        bottom0 == param(params, 1, g.rows % 65536)
        top1 == IF top0 = 0 THEN 1 ELSE top0
        bottom1 == IF bottom0 = 0 THEN g.rows ELSE bottom0
        top == Min(saturating_sub(top1, 1), g.rows - 1)
        bottom == Min(saturating_sub(bottom1, 1), g.rows - 1)
        g1 == [g EXCEPT !.scroll_top = top, !.scroll_bottom = bottom]
    IN  [g1 EXCEPT !.cursor_row = g1.scroll_top, !.cursor_col = 0]

set_scroll_region(g, params) ==
    LET top0 == param(params, 0, 1)
        bottom0 == param(params, 1, g.rows % 65536)
        top1 == IF top0 = 0 THEN 1 ELSE top0
        bottom1 == IF bottom0 = 0 THEN g.rows ELSE bottom0
        top == Min(saturating_sub(top1, 1), g.rows - 1)
        bottom == Min(saturating_sub(bottom1, 1), g.rows - 1)
        g1 == IF top < bottom
              THEN [g EXCEPT !.scroll_top = top, !.scroll_bottom = bottom]
              ELSE [g EXCEPT !.scroll_top = 0, !.scroll_bottom = g.rows - 1]
    IN  [g1 EXCEPT !.cursor_row = g1.scroll_top, !.cursor_col = 0]

\* ------------------------------------------------------- alternate screen
ensure_alt_buffer(g) ==
    IF len(g.alt_cells) # g.cols * g.rows
    THEN [g EXCEPT !.alt_cells = vec_cells(g.cols * g.rows),
                   !.alt_cursor_row = 0,
                   !.alt_cursor_col = 0,
                   !.alt_saved_cursor = <<0, 0>>,
                   !.alt_scroll_top = 0,
                   !.alt_scroll_bottom = g.rows - 1]
    ELSE g

\* Faulty variant of swap_screens: everything is exchanged but the cells.
swap_screens_keep_cells(g) ==
    [g EXCEPT !.cursor_row = g.alt_cursor_row,
              !.alt_cursor_row = g.cursor_row,
              !.cursor_col = g.alt_cursor_col,
              !.alt_cursor_col = g.cursor_col,
              !.saved_cursor = g.alt_saved_cursor,
              !.alt_saved_cursor = g.saved_cursor,
              !.scroll_top = g.alt_scroll_top,
              !.alt_scroll_top = g.scroll_top,
              !.scroll_bottom = g.alt_scroll_bottom,
              !.alt_scroll_bottom = g.scroll_bottom,
              !.in_alt = ~g.in_alt]

\* Faulty variant of swap_screens: the saved cursor is not swapped, one
\* saved cursor serves both buffers.
swap_screens_shared_saved(g) ==
    [swap_screens_keep_cells(g) EXCEPT !.cells = g.alt_cells,
                                       !.alt_cells = g.cells,
                                       !.saved_cursor = g.saved_cursor,
                                       !.alt_saved_cursor = g.alt_saved_cursor]

swap_screens(g) ==
    [g EXCEPT !.cells = g.alt_cells,
              !.alt_cells = g.cells,
              !.cursor_row = g.alt_cursor_row,
              !.alt_cursor_row = g.cursor_row,
              !.cursor_col = g.alt_cursor_col,
              !.alt_cursor_col = g.cursor_col,
              !.saved_cursor = g.alt_saved_cursor,
              !.alt_saved_cursor = g.saved_cursor,
              !.scroll_top = g.alt_scroll_top,
              !.alt_scroll_top = g.scroll_top,
              !.scroll_bottom = g.alt_scroll_bottom,
              !.alt_scroll_bottom = g.scroll_bottom,
              !.in_alt = ~g.in_alt]

\* Faulty variant of enter_alternate: the cursor is saved after the switch
\* and the clear instead of before them.
enter_alternate_save_late(g, save_cursor, do_clear) ==
    IF g.in_alt THEN g
    ELSE LET g2 == swap_screens(ensure_alt_buffer(g))
             g3 == IF do_clear
                   THEN [clear(g2) EXCEPT !.cursor_row = 0,
                                          !.cursor_col = 0,
                                          !.scroll_top = 0,
                                          !.scroll_bottom = g2.rows - 1]
                   ELSE g2
         IN  IF save_cursor
             THEN [g3 EXCEPT !.saved_cursor_1049 = Some(<<g3.cursor_row, g3.cursor_col>>)]
             ELSE g3

\* Faulty variant of enter_alternate: the DECSET 1049 cursor is recorded
\* before the `if self.in_alt { return; }` test.
enter_alternate_resave(g, save_cursor, do_clear) ==
    LET g1 == IF save_cursor
              THEN [g EXCEPT !.saved_cursor_1049 = Some(<<g.cursor_row, g.cursor_col>>)]
              ELSE g
    IN  IF g.in_alt THEN g1
        ELSE LET g2 == swap_screens(ensure_alt_buffer(g1))
             IN  IF do_clear
                 THEN [clear(g2) EXCEPT !.cursor_row = 0,
                                        !.cursor_col = 0,
                                        !.scroll_top = 0,
                                        !.scroll_bottom = g2.rows - 1]
                 ELSE g2

enter_alternate(g, save_cursor, do_clear) ==
    IF g.in_alt THEN g
    ELSE LET g1 == IF save_cursor
                   THEN [g EXCEPT !.saved_cursor_1049 = Some(<<g.cursor_row, g.cursor_col>>)]
                   ELSE g
             g2 == swap_screens(ensure_alt_buffer(g1))
         IN  IF do_clear
             THEN [clear(g2) EXCEPT !.cursor_row = 0,
                                    !.cursor_col = 0,
                                    !.scroll_top = 0,
                                    !.scroll_bottom = g2.rows - 1]
             ELSE g2

exit_alternate(g, restore_cursor) ==
    IF ~g.in_alt THEN g
    ELSE LET g1 == swap_screens(g)
         IN  IF restore_cursor /\ g1.saved_cursor_1049 # None
             THEN [g1 EXCEPT !.cursor_row = Min(g1.saved_cursor_1049[1][1], g1.rows - 1),
                             !.cursor_col = Min(g1.saved_cursor_1049[1][2], g1.cols - 1),
                             !.saved_cursor_1049 = None]
             ELSE g1

\* Faulty variant of reset: the alternate screen is not left first.
reset_stays_alt(g) ==
    LET g2 == [g EXCEPT !.cur_fg_kind = ColorDefault,
                        !.cur_bg_kind = ColorDefault,
                        !.cur_bold = FALSE,
                        !.cur_underline = FALSE,
                        !.cur_inverse = FALSE,
                        !.g0 = "Ascii",
                        !.g1 = "Ascii",
                        !.use_g1 = FALSE,
                        !.cursor_visible = TRUE,
                        !.saved_cursor = <<0, 0>>,
                        !.scroll_top = 0,
                        !.scroll_bottom = g.rows - 1,
                        !.last_printable = None,
                        !.default_fg = DEFAULT_FG,
                        !.default_bg = DEFAULT_BG,
                        !.cursor_color = None,
                        !.palette = <<>>]
    IN  [clear(g2) EXCEPT !.cursor_row = 0, !.cursor_col = 0]

reset(g) ==
    LET g1 == IF g.in_alt THEN exit_alternate(g, FALSE) ELSE g
        g2 == [g1 EXCEPT !.cur_fg_kind = ColorDefault,
                         !.cur_bg_kind = ColorDefault,
                         !.cur_bold = FALSE,
                         !.cur_underline = FALSE,
                         !.cur_inverse = FALSE,
                         !.g0 = "Ascii",
                         !.g1 = "Ascii",
                         !.use_g1 = FALSE,
                         !.cursor_visible = TRUE,
                         !.saved_cursor = <<0, 0>>,
                         !.scroll_top = 0,
                         !.scroll_bottom = g1.rows - 1,
                         !.last_printable = None,
                         !.default_fg = DEFAULT_FG,
                         !.default_bg = DEFAULT_BG,
                         !.cursor_color = None,
                         !.palette = <<>>]
    IN  [clear(g2) EXCEPT !.cursor_row = 0, !.cursor_col = 0]

\* Faulty variant of resize: the cursors are not clamped to the new size.
resize_no_clamp(g, c, r) ==
    LET cols == Max(c, 1)
        rows == Max(r, 1)
    IN  IF cols = g.cols /\ rows = g.rows THEN g
        ELSE [g EXCEPT !.cols = cols,
                       !.rows = rows,
                       !.cells = vec_cells(cols * rows),
                       !.scroll_top = 0,
                       !.scroll_bottom = rows - 1,
                       !.alt_cells = IF len(g.alt_cells) # 0
                                     THEN vec_cells(cols * rows)
                                     ELSE g.alt_cells,
                       !.alt_scroll_top = 0,
                       !.alt_scroll_bottom = rows - 1]

\* Faulty variant of resize: no early return when the size is unchanged.
resize_always(g, c, r) ==
    LET cols == Max(c, 1)
        rows == Max(r, 1)
    IN  [g EXCEPT !.cols = cols,
                  !.rows = rows,
                  !.cells = vec_cells(cols * rows),
                  !.cursor_row = Min(g.cursor_row, rows - 1),
                  !.cursor_col = Min(g.cursor_col, cols - 1),
                  !.scroll_top = 0,
                  !.scroll_bottom = rows - 1,
                  !.alt_cells = IF len(g.alt_cells) # 0
                                THEN vec_cells(cols * rows)
                                ELSE g.alt_cells,
                  !.alt_cursor_row = Min(g.alt_cursor_row, rows - 1),
                  !.alt_cursor_col = Min(g.alt_cursor_col, cols - 1),
                  !.alt_scroll_top = 0,
                  !.alt_scroll_bottom = rows - 1]

\* Faulty variant of resize: the inactive buffer keeps its cursor and region.
resize_live_only(g, c, r) ==
    LET cols == Max(c, 1)
        rows == Max(r, 1)
    IN  IF cols = g.cols /\ rows = g.rows THEN g
        ELSE [g EXCEPT !.cols = cols,
                       !.rows = rows,
                       !.cells = vec_cells(cols * rows),
                       !.cursor_row = Min(g.cursor_row, rows - 1),
                       !.cursor_col = Min(g.cursor_col, cols - 1),
                       !.scroll_top = 0,
                       !.scroll_bottom = rows - 1,
                       !.alt_cells = IF len(g.alt_cells) # 0
                                     THEN vec_cells(cols * rows)
                                     ELSE g.alt_cells]

\* Faulty variant of resize: the inactive buffer keeps the cells it had.
resize_keep_alt(g, c, r) ==
    LET cols == Max(c, 1)
        rows == Max(r, 1)
    IN  IF cols = g.cols /\ rows = g.rows THEN g
        ELSE [g EXCEPT !.cols = cols,
                       !.rows = rows,
                       !.cells = vec_cells(cols * rows),
                       !.cursor_row = Min(g.cursor_row, rows - 1),
                       !.cursor_col = Min(g.cursor_col, cols - 1),
                       !.scroll_top = 0,
                       !.scroll_bottom = rows - 1,
                       !.alt_cursor_row = Min(g.alt_cursor_row, rows - 1),
                       !.alt_cursor_col = Min(g.alt_cursor_col, cols - 1),
                       !.alt_scroll_top = 0,
                       !.alt_scroll_bottom = rows - 1]

resize(g, c, r) ==
    LET cols == Max(c, 1)
        rows == Max(r, 1)
    IN  IF cols = g.cols /\ rows = g.rows THEN g
        ELSE [g EXCEPT !.cols = cols,
                       !.rows = rows,
                       !.cells = vec_cells(cols * rows),
                       !.cursor_row = Min(g.cursor_row, rows - 1),
                       !.cursor_col = Min(g.cursor_col, cols - 1),
                       !.scroll_top = 0,
                       !.scroll_bottom = rows - 1,
                       !.alt_cells = IF len(g.alt_cells) # 0
                                     THEN vec_cells(cols * rows)
                                     ELSE g.alt_cells,
                       !.alt_cursor_row = Min(g.alt_cursor_row, rows - 1),
                       !.alt_cursor_col = Min(g.alt_cursor_col, cols - 1),
                       !.alt_scroll_top = 0,
                       !.alt_scroll_bottom = rows - 1]

\* The value returned by resize.
resize_returns(g, c, r) == ~(Max(c, 1) = g.cols /\ Max(r, 1) = g.rows)

\* -------------------------------------------------------------------- CSI
\* One iteration of the loop over the parameters of CSI ? h / CSI ? l.
dec_private_mode(g, p, set) ==
    IF p = 25 THEN [g EXCEPT !.cursor_visible = set]
    ELSE IF p = 47 \/ p = 1047
         THEN IF set THEN enter_alternate(g, FALSE, FALSE) ELSE exit_alternate(g, FALSE)
    ELSE IF p = 1049
         THEN IF set THEN enter_alternate(g, TRUE, TRUE) ELSE exit_alternate(g, TRUE)
    ELSE g

RECURSIVE dec_private_modes(_, _, _, _)
dec_private_modes(g, params, i, set) ==
    IF i > Len(params) THEN g
    ELSE dec_private_modes(dec_private_mode(g, params[i], set), params, i + 1, set)

\* final_byte is the ASCII code of the final character of the sequence.
execute_csi(g, final_byte, params, private) ==
    CASE final_byte = 65 ->   \* 'A'
           [g EXCEPT !.cursor_row = saturating_sub(g.cursor_row, csi_count(params, 0))]
      [] final_byte = 66 ->   \* 'B'
           [g EXCEPT !.cursor_row = Min(g.cursor_row + csi_count(params, 0), g.rows - 1)]
      [] final_byte = 67 ->   \* 'C'
           [g EXCEPT !.cursor_col = Min(g.cursor_col + csi_count(params, 0), g.cols - 1)]
      [] final_byte = 68 ->   \* 'D'
           [g EXCEPT !.cursor_col = saturating_sub(g.cursor_col, csi_count(params, 0))]
      [] final_byte = 69 -> next_line(g, csi_count(params, 0))       \* 'E'
      [] final_byte = 70 -> prev_line(g, csi_count(params, 0))       \* 'F'
      [] final_byte = 71 ->   \* 'G'
           [g EXCEPT !.cursor_col = csi_position(params, 0, g.cols - 1)]
      [] final_byte = 100 ->  \* 'd'
           [g EXCEPT !.cursor_row = csi_position(params, 0, g.rows - 1)]
      [] final_byte = 72 \/ final_byte = 102 ->   \* 'H' | 'f'
           [g EXCEPT !.cursor_row = csi_position(params, 0, g.rows - 1),
                     !.cursor_col = csi_position(params, 1, g.cols - 1)]
      [] final_byte = 64 -> insert_chars(g, csi_count(params, 0))    \* '@'
      [] final_byte = 80 -> delete_chars(g, csi_count(params, 0))    \* 'P'
      [] final_byte = 88 -> erase_chars(g, csi_count(params, 0))     \* 'X'
      [] final_byte = 74 -> erase_display(g, param(params, 0, 0))    \* 'J'
      [] final_byte = 75 -> erase_line(g, param(params, 0, 0))       \* 'K'
      [] final_byte = 76 -> insert_lines(g, csi_count(params, 0))    \* 'L'
      [] final_byte = 77 -> delete_lines(g, csi_count(params, 0))    \* 'M'
      [] final_byte = 83 -> scroll_up(g, csi_count(params, 0))       \* 'S'
      [] final_byte = 84 -> scroll_down(g, csi_count(params, 0))     \* 'T'
      [] final_byte = 98 -> repeat_last(g, csi_count(params, 0))     \* 'b'
      [] final_byte = 115 ->  \* 's'
           [g EXCEPT !.saved_cursor = <<g.cursor_row, g.cursor_col>>]
      [] final_byte = 117 ->  \* 'u'
           [g EXCEPT !.cursor_row = Min(g.saved_cursor[1], g.rows - 1),
                     !.cursor_col = Min(g.saved_cursor[2], g.cols - 1)]
      [] final_byte = 114 -> set_scroll_region(g, params)            \* 'r'
      [] final_byte = 109 -> apply_sgr(g, params)                    \* 'm'
      [] final_byte = 104 \/ final_byte = 108 ->   \* 'h' | 'l'
           IF private THEN dec_private_modes(g, params, 1, final_byte = 104) ELSE g
      [] OTHER -> g

\* ------------------------------------------------------------------ Perform
print(g, c) == put_char(g, map_charset_char(g, c))

execute(g, byte) ==
    CASE byte = 8 -> backspace(g)
      [] byte = 9 -> tab(g)
      [] byte = 10 -> newline(g)
      [] byte = 13 -> carriage_return(g)
      [] byte = 14 -> [g EXCEPT !.use_g1 = TRUE]
      [] byte = 15 -> [g EXCEPT !.use_g1 = FALSE]
      [] OTHER -> g

\* intermediates[0] == b'?'
csi_dispatch(g, params, intermediates, ignore, c) ==
    IF ignore THEN g
    ELSE execute_csi(g, c, params, Len(intermediates) > 0 /\ intermediates[1] = 63)

esc_dispatch(g, intermediates, byte) ==
    IF intermediates = <<>> /\ byte = 68 THEN newline(g)                \* ESC D
    ELSE IF intermediates = <<>> /\ byte = 77                           \* ESC M
         THEN IF g.cursor_row <= g.scroll_top THEN scroll_down(g, 1)
              ELSE [g EXCEPT !.cursor_row = saturating_sub(g.cursor_row, 1)]
    ELSE IF intermediates = <<>> /\ byte = 69                           \* ESC E
         THEN carriage_return(newline(g))
    ELSE IF intermediates = <<>> /\ byte = 99 THEN reset(g)             \* ESC c
    ELSE IF intermediates = <<>> /\ byte = 55                           \* ESC 7
         THEN [g EXCEPT !.saved_cursor = <<g.cursor_row, g.cursor_col>>]
    ELSE IF intermediates = <<>> /\ byte = 56                           \* ESC 8
         THEN [g EXCEPT !.cursor_row = Min(g.saved_cursor[1], g.rows - 1),
                        !.cursor_col = Min(g.saved_cursor[2], g.cols - 1)]
    ELSE IF Len(intermediates) = 1 /\ (intermediates[1] = 40 \/ intermediates[1] = 41)
         THEN select_charset(g, intermediates[1], byte)
    ELSE g

\* -------------------------------------------------------------------- OSC
\* Byte strings are sequences of byte values.
IsDigit(b) == b >= 48 /\ b <= 57

RECURSIVE decimal_value(_, _)
decimal_value(bytes, acc) ==
    IF bytes = <<>> THEN acc ELSE decimal_value(Tail(bytes), (acc * 10) + (Head(bytes) - 48))

\* str::parse::<u16>() / parse::<usize>() on a byte string: an optional '+'
\* and at least one decimal digit, Err on overflow.  -1 stands for Err.  A
\* palette index is parsed as usize and then rejected when it is >= 256, so
\* any max >= 256 gives the same result for it.
parse_uint(bytes, max) ==
    LET body == IF bytes # <<>> /\ Head(bytes) = 43 THEN Tail(bytes) ELSE bytes
    IN  IF body = <<>> \/ (\E i \in 1..Len(body) : ~IsDigit(body[i])) THEN -1
        ELSE LET v == decimal_value(body, 0)
             IN  IF v > max THEN -1 ELSE v

IsHex(b) == IsDigit(b) \/ (b >= 65 /\ b <= 70) \/ (b >= 97 /\ b <= 102)

hex_digit(b) == IF IsDigit(b) THEN b - 48 ELSE IF b >= 97 THEN b - 87 ELSE b - 55

RECURSIVE hex_value(_, _)
hex_value(bytes, acc) ==
    IF bytes = <<>> THEN acc ELSE hex_value(Tail(bytes), (acc * 16) + hex_digit(Head(bytes)))

\* A colour component of 1 to 4 hex digits scaled to 8 bits.
scale_component(bytes) ==
    LET v == hex_value(bytes, 0)
    IN  CASE Len(bytes) = 1 -> v * 17
          [] Len(bytes) = 2 -> v
          [] Len(bytes) = 3 -> v \div 16
          [] OTHER -> v \div 256

\* The fields of a byte string split on the byte sep.
RECURSIVE split_on(_, _, _)
split_on(bytes, sep, cur) ==
    IF bytes = <<>> THEN <<cur>>
    ELSE IF Head(bytes) = sep THEN <<cur>> \o split_on(Tail(bytes), sep, <<>>)
    ELSE split_on(Tail(bytes), sep, Append(cur, Head(bytes)))

\* parse_color_spec: `rgb:R/G/B` with 1 to 4 hex digits per component and
\* `#` followed by 3, 6, 9 or 12 hex digits; None for anything else.
parse_color_spec(spec) ==
    IF Len(spec) > 4 /\ SubSeq(spec, 1, 4) = <<114, 103, 98, 58>>
    THEN LET parts == split_on(SubSeq(spec, 5, Len(spec)), 47, <<>>)
         IN  IF Len(parts) = 3
                  /\ \A i \in 1..3 :
                        /\ Len(parts[i]) >= 1
                        /\ Len(parts[i]) <= 4
                        /\ \A j \in 1..Len(parts[i]) : IsHex(parts[i][j])
             THEN Some(from_rgb(scale_component(parts[1]), scale_component(parts[2]),
                                scale_component(parts[3])))
             ELSE None
    ELSE IF Len(spec) > 1 /\ Head(spec) = 35
    THEN LET digits == Tail(spec)
             n == Len(digits) \div 3
         IN  IF Len(digits) % 3 = 0 /\ n >= 1 /\ n <= 4
                  /\ \A j \in 1..Len(digits) : IsHex(digits[j])
             THEN Some(from_rgb(scale_component(SubSeq(digits, 1, n)),
                                scale_component(SubSeq(digits, n + 1, 2 * n)),
                                scale_component(SubSeq(digits, (2 * n) + 1, 3 * n))))
             ELSE None
    ELSE None

\* -------------------------------------------------- colour tables (color.rs)
RGB_LEVELS == <<0, 95, 135, 175, 215, 255>>

ansi_16_color(index) ==
    CASE index = 0 -> from_rgb(0, 0, 0)
      [] index = 1 -> from_rgb(128, 0, 0)
      [] index = 2 -> from_rgb(0, 128, 0)
      [] index = 3 -> from_rgb(128, 128, 0)
      [] index = 4 -> from_rgb(0, 0, 128)
      [] index = 5 -> from_rgb(128, 0, 128)
      [] index = 6 -> from_rgb(0, 128, 128)
      [] index = 7 -> from_rgb(192, 192, 192)
      [] index = 8 -> from_rgb(128, 128, 128)
      [] index = 9 -> from_rgb(255, 0, 0)
      [] index = 10 -> from_rgb(0, 255, 0)
      [] index = 11 -> from_rgb(255, 255, 0)
      [] index = 12 -> from_rgb(0, 0, 255)
      [] index = 13 -> from_rgb(255, 0, 255)
      [] index = 14 -> from_rgb(0, 255, 255)
      [] OTHER -> from_rgb(255, 255, 255)

\* u8::saturating_add / u8::saturating_mul
saturating_u8(v) == Min(v, 255)

xterm_256_color(index) ==
    IF index < 16 THEN ansi_16_color(index)
    ELSE IF index < 232
    THEN from_rgb(RGB_LEVELS[((index - 16) \div 36) + 1],
                  RGB_LEVELS[(((index - 16) \div 6) % 6) + 1],
                  RGB_LEVELS[((index - 16) % 6) + 1])
    ELSE from_rgb(saturating_u8(8 + saturating_u8((index - 232) * 10)),
                  saturating_u8(8 + saturating_u8((index - 232) * 10)),
                  saturating_u8(8 + saturating_u8((index - 232) * 10)))

\* The palette is the function from the overridden indices to their colours:
\* `if let Some(color) = self.palette[idx]` is `idx \in DOMAIN g.palette`.
resolve_color(g, kind, is_fg) ==
    CASE kind.k = "Default" -> IF is_fg THEN g.default_fg ELSE g.default_bg
      [] kind.k = "Ansi" ->
            IF kind.v \in DOMAIN g.palette THEN g.palette[kind.v]
            ELSE ansi_16_color(kind.v)
      [] kind.k = "Xterm" ->
            IF kind.v \in DOMAIN g.palette THEN g.palette[kind.v]
            ELSE xterm_256_color(kind.v)
      [] OTHER -> kind.v

\* Faulty variant of palette_clear: every override is dropped.
palette_clear_all(pal, idx) == <<>>

\* self.palette[idx] = Some(color): the palette is the function from the
\* overridden indices to their colours.
palette_set(pal, idx, color) ==
    [i \in (DOMAIN pal) \cup {idx} |-> IF i = idx THEN color ELSE pal[i]]

\* self.palette[idx] = None
palette_clear(pal, idx) == [i \in (DOMAIN pal) \ {idx} |-> pal[i]]

\* The loop of OSC 4 over the (index, spec) pairs, i 0-based.
RECURSIVE osc_set_palette(_, _, _)
osc_set_palette(g, params, i) ==
    IF i + 1 >= Len(params) THEN g
    ELSE LET idx == parse_uint(params[i + 1], 65535)
             spec == params[i + 2]
             color == parse_color_spec(spec)
         IN  IF idx = -1 \/ idx >= 256 \/ spec = <<63>> \/ color = None
             THEN osc_set_palette(g, params, i + 2)
             ELSE osc_set_palette([g EXCEPT !.palette = palette_set(@, idx, color[1])],
                                  params, i + 2)

\* The loop of OSC 104 over the listed indices, i 1-based.
RECURSIVE osc_reset_palette(_, _, _)
osc_reset_palette(g, params, i) ==
    IF i > Len(params) THEN g
    ELSE LET idx == parse_uint(params[i], 65535)
         IN  IF idx # -1 /\ idx < 256
             THEN osc_reset_palette([g EXCEPT !.palette = palette_clear(@, idx)], params, i + 1)
             ELSE osc_reset_palette(g, params, i + 1)

osc_dispatch(g, params) ==
    IF params = <<>> THEN g
    ELSE LET cmd_num == parse_uint(params[1], 65535)
         IN  CASE cmd_num = 4 ->
                    IF Len(params) < 2 THEN g ELSE osc_set_palette(g, params, 1)
               [] cmd_num >= 10 /\ cmd_num <= 12 ->
                    IF Len(params) < 2 \/ params[2] = <<63>> THEN g
                    ELSE LET color == parse_color_spec(params[2])
                         IN  IF color = None THEN g
                             ELSE IF cmd_num = 10 THEN [g EXCEPT !.default_fg = color[1]]
                             ELSE IF cmd_num = 11 THEN [g EXCEPT !.default_bg = color[1]]
                             ELSE [g EXCEPT !.cursor_color = color]
               [] cmd_num = 104 ->
                    IF Len(params) < 2 THEN [g EXCEPT !.palette = <<>>]
                    ELSE osc_reset_palette(g, params, 2)
               [] cmd_num = 110 -> [g EXCEPT !.default_fg = DEFAULT_FG]
               [] cmd_num = 111 -> [g EXCEPT !.default_bg = DEFAULT_BG]
               [] cmd_num = 112 -> [g EXCEPT !.cursor_color = None]
               [] OTHER -> g

\* ----------------------------------------------------------------- parser
\* vte::Parser::advance, one byte at a time.  A parser step works on
\* r = [ps |-> the parser state, acts |-> the Perform callbacks it has
\* dispatched for this byte, in order]; the callbacks are then applied to the
\* grid by perform.
Action(kind, params, intermediates, ignore, c) ==
    [kind |-> kind, params |-> params, intermediates |-> intermediates,
     ignore |-> ignore, c |-> c]

Emit(r, act) == [r EXCEPT !.acts = Append(@, act)]

\* The parser's capacities: parameters and subparameters of one CSI or DCS
\* together, parameters of one OSC, bytes of one OSC.
MAX_PARAMS == 32
MAX_OSC_PARAMS == 16
MAX_OSC_RAW == 1024

\* Action::Clear.  ps.params holds the first value of every parameter,
\* ps.plen counts the parameters and subparameters stored (Params::len),
\* ps.sub tells that the parameter being read already has its first value.
parser_clear(ps) ==
    [ps EXCEPT !.params = <<>>, !.param = 0, !.intermediates = <<>>,
               !.ignoring = FALSE, !.sub = FALSE, !.plen = 0]

\* Action::OscEnd: leaving OscString closes the last parameter, unless
\* MAX_OSC_PARAMS are closed already, and dispatches the OSC.  ps.osc holds
\* the closed parameters, ps.osc_cur the bytes after the last separator
\* taken, ps.osc_len counts the bytes stored (osc_raw.len()).
osc_end(r) ==
    LET params == IF Len(r.ps.osc) = MAX_OSC_PARAMS THEN r.ps.osc
                  ELSE Append(r.ps.osc, r.ps.osc_cur)
    IN  Emit([r EXCEPT !.ps.osc = <<>>, !.ps.osc_cur = <<>>, !.ps.osc_len = 0],
             Action("osc", params, <<>>, FALSE, 0))

\* The state change to `state`, with the exit action of the state left and
\* the entry action Clear.  (Unhook, the exit action of DcsPassthrough, and
\* OscStart do nothing here: TerminalGrid::unhook is empty and the OSC
\* fields are emptied by osc_end.)
parser_goto(r, state) ==
    LET r1 == IF r.ps.state = "OscString" THEN osc_end(r) ELSE r
        ps1 == IF state \in {"Escape", "CsiEntry", "DcsEntry"}
               THEN parser_clear(r1.ps)
               ELSE r1.ps
    IN  [r1 EXCEPT !.ps = [ps1 EXCEPT !.state = state]]

IsExecutable(b) == b <= 23 \/ b = 25 \/ (b >= 28 /\ b <= 31)

parser_execute(r, b) == Emit(r, Action("execute", <<>>, <<>>, FALSE, b))

parser_print(r, c) == Emit(r, Action("print", <<>>, <<>>, FALSE, c))

parser_collect(r, b) ==
    IF Len(r.ps.intermediates) >= 2
    THEN [r EXCEPT !.ps.ignoring = TRUE]
    ELSE [r EXCEPT !.ps.intermediates = Append(@, b)]

\* Action::Param: with MAX_PARAMS values stored the sequence is marked
\* ignored; otherwise ';' closes the parameter (Params::push), ':' stores a
\* subparameter (Params::extend; only the first value of a parameter is read
\* by the grid), a digit accumulates with saturation at u16::MAX.
parser_param(r, b) ==
    LET ps == r.ps
    IN  IF ps.plen >= MAX_PARAMS THEN [r EXCEPT !.ps.ignoring = TRUE]
        ELSE IF b = 59
             THEN [r EXCEPT !.ps.params = IF ps.sub THEN @ ELSE Append(@, ps.param),
                            !.ps.param = 0,
                            !.ps.sub = FALSE,
                            !.ps.plen = @ + 1]
        ELSE IF b = 58
             THEN [r EXCEPT !.ps.params = IF ps.sub THEN @ ELSE Append(@, ps.param),
                            !.ps.param = 0,
                            !.ps.sub = TRUE,
                            !.ps.plen = @ + 1]
        ELSE [r EXCEPT !.ps.param = Min((ps.param * 10) + (b - 48), 65535)]

\* Action::CsiDispatch: the last parameter is pushed unless the parameters
\* are full, in which case the sequence is dispatched as ignored.
parser_csi_dispatch(r, b) ==
    LET ps == r.ps
        full == ps.plen >= MAX_PARAMS
        params == IF full \/ ps.sub THEN ps.params ELSE Append(ps.params, ps.param)
    IN  Emit(parser_goto(r, "Ground"),
             Action("csi", params, ps.intermediates, ps.ignoring \/ full, b))

\* Action::Hook, on entering DcsPassthrough: the last parameter is pushed as
\* in parser_csi_dispatch; TerminalGrid::hook is empty.
parser_hook(r) ==
    IF r.ps.plen >= MAX_PARAMS THEN [r EXCEPT !.ps.ignoring = TRUE]
    ELSE [r EXCEPT !.ps.params = IF r.ps.sub THEN @ ELSE Append(@, r.ps.param),
                   !.ps.sub = FALSE,
                   !.ps.plen = @ + 1]

parser_esc_dispatch(r, b) ==
    Emit(parser_goto(r, "Ground"), Action("esc", <<>>, r.ps.intermediates, r.ps.ignoring, b))

\* The first byte of a multi-byte UTF-8 sequence.
parser_begin_utf8(r, b) ==
    LET need == IF b < 224 THEN 1 ELSE IF b < 240 THEN 2 ELSE 3
        acc == IF b < 224 THEN b - 192 ELSE IF b < 240 THEN b - 224 ELSE b - 240
    IN  [r EXCEPT !.ps.state = "Utf8", !.ps.utf8_need = need,
                  !.ps.utf8_acc = acc, !.ps.utf8_first = TRUE,
                  !.ps.utf8_lead = b]

\* The range allowed for the byte that follows the lead byte.
utf8_second_ok(lead, b) ==
    CASE lead = 224 -> b >= 160 /\ b <= 191
      [] lead = 237 -> b >= 128 /\ b <= 159
      [] lead = 240 -> b >= 144 /\ b <= 191
      [] lead = 244 -> b >= 128 /\ b <= 143
      [] OTHER -> b >= 128 /\ b <= 191

\* A byte received in the Utf8 state: a continuation byte extends the scalar,
\* which is printed when complete; anything else prints U+FFFD.
process_utf8(r, b) ==
    LET ps == r.ps
        ok == IF ps.utf8_first THEN utf8_second_ok(ps.utf8_lead, b)
              ELSE b >= 128 /\ b <= 191
        ground == [r EXCEPT !.ps.state = "Ground", !.ps.utf8_need = 0,
                            !.ps.utf8_acc = 0, !.ps.utf8_first = FALSE,
                            !.ps.utf8_lead = 0]
    IN  IF ~ok THEN parser_print(ground, 65533)
        ELSE IF ps.utf8_need = 1 THEN parser_print(ground, (ps.utf8_acc * 64) + (b - 128))
        ELSE [r EXCEPT !.ps.utf8_need = @ - 1,
                       !.ps.utf8_acc = (@ * 64) + (b - 128),
                       !.ps.utf8_first = FALSE]

parser_ground(r, b) ==
    IF IsExecutable(b) THEN parser_execute(r, b)
    ELSE IF b >= 32 /\ b <= 127 THEN parser_print(r, b)
    ELSE IF (b >= 128 /\ b <= 143) \/ (b >= 145 /\ b <= 154) \/ b = 156
         THEN parser_execute(r, b)
    ELSE IF b >= 194 /\ b <= 244 THEN parser_begin_utf8(r, b)
    ELSE r

parser_escape(r, b) ==
    IF IsExecutable(b) THEN parser_execute(r, b)
    ELSE IF b >= 32 /\ b <= 47
         THEN parser_collect(parser_goto(r, "EscapeIntermediate"), b)
    ELSE IF b = 91 THEN parser_goto(r, "CsiEntry")
    ELSE IF b = 93 THEN parser_goto(r, "OscString")
    ELSE IF b = 80 THEN parser_goto(r, "DcsEntry")
    ELSE IF b = 88 \/ b = 94 \/ b = 95 THEN parser_goto(r, "SosPmApcString")
    ELSE IF b >= 48 /\ b <= 126 THEN parser_esc_dispatch(r, b)
    ELSE r

parser_escape_intermediate(r, b) ==
    IF IsExecutable(b) THEN parser_execute(r, b)
    ELSE IF b >= 32 /\ b <= 47 THEN parser_collect(r, b)
    ELSE IF b >= 48 /\ b <= 126 THEN parser_esc_dispatch(r, b)
    ELSE r

parser_csi(r, b) ==
    LET st == r.ps.state
    IN  IF IsExecutable(b) THEN parser_execute(r, b)
        ELSE IF b = 127 THEN r
        ELSE IF st = "CsiIgnore"
             THEN IF b >= 64 /\ b <= 126 THEN parser_goto(r, "Ground") ELSE r
        ELSE IF b >= 64 /\ b <= 126 THEN parser_csi_dispatch(r, b)
        ELSE IF b >= 32 /\ b <= 47
             THEN parser_collect(parser_goto(r, "CsiIntermediate"), b)
        ELSE IF st = "CsiIntermediate" THEN parser_goto(r, "CsiIgnore")
        ELSE IF b >= 48 /\ b <= 59 THEN parser_param(parser_goto(r, "CsiParam"), b)
        ELSE IF b >= 60 /\ b <= 63
             THEN IF st = "CsiEntry" THEN parser_collect(parser_goto(r, "CsiParam"), b)
                  ELSE parser_goto(r, "CsiIgnore")
        ELSE r

\* DcsEntry, DcsParam and DcsIntermediate: the header of a device control
\* string up to its final byte.
parser_dcs(r, b) ==
    LET st == r.ps.state
    IN  IF b < 32 \/ b >= 127 THEN r
        ELSE IF b >= 64 THEN parser_hook(parser_goto(r, "DcsPassthrough"))
        ELSE IF b <= 47
             THEN parser_collect(parser_goto(r, "DcsIntermediate"), b)
        ELSE IF st = "DcsIntermediate" THEN parser_goto(r, "DcsIgnore")
        ELSE IF b <= 59 THEN parser_param(parser_goto(r, "DcsParam"), b)
        ELSE IF st = "DcsEntry" THEN parser_collect(parser_goto(r, "DcsParam"), b)
        ELSE parser_goto(r, "DcsIgnore")

\* DcsPassthrough, DcsIgnore and SosPmApcString: the body of a string is
\* passed to TerminalGrid::put, which is empty, or ignored, until ST (0x9C).
parser_string(r, b) ==
    IF b = 156 THEN parser_goto(r, "Ground") ELSE r

\* Action::OscPut: nothing is taken once MAX_OSC_RAW bytes are stored; ';'
\* closes a parameter unless MAX_OSC_PARAMS are closed; any other byte is
\* stored.
parser_osc_put(r, b) ==
    IF r.ps.osc_len >= MAX_OSC_RAW THEN r
    ELSE IF b = 59
         THEN IF Len(r.ps.osc) = MAX_OSC_PARAMS THEN r
              ELSE [r EXCEPT !.ps.osc = Append(@, r.ps.osc_cur), !.ps.osc_cur = <<>>]
    ELSE [r EXCEPT !.ps.osc_cur = Append(@, b), !.ps.osc_len = @ + 1]

parser_osc(r, b) ==
    IF b = 7 THEN parser_goto(r, "Ground")
    ELSE IF b < 32 THEN r
    ELSE parser_osc_put(r, b)

\* The parser's step on byte b.
parser_advance(r, b) ==
    LET st == r.ps.state
    IN  IF st = "Utf8" THEN process_utf8(r, b)
        ELSE IF b = 24 \/ b = 26 THEN parser_execute(parser_goto(r, "Ground"), b)
        ELSE IF b = 27 THEN parser_goto(r, "Escape")
        ELSE IF st = "Ground" THEN parser_ground(r, b)
        ELSE IF st = "Escape" THEN parser_escape(r, b)
        ELSE IF st = "EscapeIntermediate" THEN parser_escape_intermediate(r, b)
        ELSE IF st \in {"CsiEntry", "CsiParam", "CsiIntermediate", "CsiIgnore"}
             THEN parser_csi(r, b)
        ELSE IF st = "OscString" THEN parser_osc(r, b)
        ELSE IF st \in {"DcsEntry", "DcsParam", "DcsIntermediate"} THEN parser_dcs(r, b)
        ELSE parser_string(r, b)

\* One callback of `impl Perform for TerminalGrid`.
perform(g, act) ==
    CASE act.kind = "print" -> print(g, act.c)
      [] act.kind = "execute" -> execute(g, act.c)
      [] act.kind = "csi" -> csi_dispatch(g, act.params, act.intermediates, act.ignore, act.c)
      [] act.kind = "esc" -> esc_dispatch(g, act.intermediates, act.c)
      [] act.kind = "osc" -> osc_dispatch(g, act.params)

RECURSIVE perform_all(_, _)
perform_all(g, acts) ==
    IF acts = <<>> \/ g.panicked THEN g
    ELSE perform_all(perform(g, Head(acts)), Tail(acts))

\* parser.advance(self, byte): the parser steps, its callbacks run on the grid.
advance(g, b) ==
    LET r == parser_advance([ps |-> g.parser, acts |-> <<>>], b)
    IN  [perform_all(g, r.acts) EXCEPT !.parser = r.ps]

\* The loop of write_bytes over the local parser.
RECURSIVE advance_all(_, _)
advance_all(g, bytes) ==
    IF bytes = <<>> \/ g.panicked THEN g
    ELSE advance_all(advance(g, Head(bytes)), Tail(bytes))

\* Faulty variant of write_bytes: every call starts from a fresh parser (the
\* parser taken out of the grid is not put back).
write_bytes_fresh_parser(g, bytes) ==
    [advance_all([g EXCEPT !.parser = Parser_new], bytes) EXCEPT !.parser = Parser_new]

\* write_bytes takes the parser out of the grid (leaving a fresh one in its
\* place), advances it over the bytes and stores it back.  The callbacks do
\* not touch self.parser, so the parser stored at the end is the one taken
\* at the start advanced over the bytes: the field `parser` of the record
\* stands for both.
write_bytes(g, bytes) == advance_all(g, bytes)

\* ======================================================================
\* The engine driven by parser actions and resizes.
\* ======================================================================
VARIABLES
    grid,      \* the TerminalGrid owned by the UI thread
    steps,     \* number of actions applied so far (bounds the exploration)
    hist,      \* ghost: the primary screen as it was when the alternate
               \* screen was entered (see hist_after), or None
    input,     \* bytes of a scenario not yet passed to write_bytes
    fed,       \* ghost: every byte passed to write_bytes so far, in order
    pty_out,   \* bytes written by the shell, waiting in the PTY master
    rd_pc,     \* read pump: "read", "send", "repaint" or "done"
    rd_buf,    \* read pump: the chunk returned by the last read
    rd_log,    \* ghost: every byte returned by read so far, in order
    rd_left,   \* ghost: the read pump has stopped with chunks queued in the
               \* output channel
    out_chan,  \* the mpsc channel tx_pty_output -> rx (a queue of chunks)
    rx_alive,  \* the Receiver of the channel exists (the UI owns it)
    repaints,  \* number of repaint requests not yet served by a frame
    needs_repaint,  \* UI frame: the local needs_repaint after the resize check
    received_data,  \* UI frame: the local received_data of the drain loop
    ui_pc,     \* UI thread: "idle" between frames, "drain" inside update
    in_chan,   \* the mpsc channel tx_pty_input -> rx_pty_input (PtyEvents)
    tx_alive,  \* a Sender of that channel exists
    wr_pc,     \* write pump: "recv", "write" (inside the write call) or "done"
    wr_bytes,  \* write pump: the buffer passed to the write call in progress
    wr_n,      \* write pump: how many of its bytes the PTY has accepted so far
    pty_in,    \* bytes the PTY master has accepted from the write pump
    pty_unread,  \* how many of them the shell has not read yet
    wr_log,    \* ghost: the payloads of the Input events whose write returned Ok
    pty_ws,    \* the window size last set on the PTY with TIOCSWINSZ
    sys_log,   \* the PTY system calls of the latest resize handling, in order
    key_out,   \* the Vec<u8> the key map appends to
    key_ev,    \* ghost: the last event and modifiers passed to the key map
    key_prev   \* ghost: key_out before that call

engine_vars == <<grid, steps, hist>>
bytes_vars == <<input, fed>>
frame_vars == <<needs_repaint, received_data>>
pump_vars == <<pty_out, rd_pc, rd_buf, rd_log, rd_left, out_chan, rx_alive, repaints, ui_pc,
               needs_repaint, received_data>>
wr_call_vars == <<wr_bytes, wr_n, pty_unread>>
write_vars == <<in_chan, tx_alive, wr_pc, wr_bytes, wr_n, pty_in, pty_unread, wr_log, pty_ws,
                sys_log>>
key_vars == <<key_out, key_ev, key_prev>>
vars == <<grid, steps, hist, input, fed, pty_out, rd_pc, rd_buf, rd_log, rd_left, out_chan,
          rx_alive, repaints, ui_pc, in_chan, tx_alive, wr_pc, pty_in, wr_log, pty_ws,
          sys_log, key_out, key_ev, key_prev, needs_repaint, received_data, wr_bytes, wr_n,
          pty_unread>>

\* ---------------------------------------------------------------- inputs
\* The sizes the grid is constructed with: one cell, a line of two cells, a
\* column, a 2 x 2 grid and the largest grid. Resize reaches every other size.
Dims == {<<1, 1>>, <<2, 1>>, <<1, MaxRows>>, <<2, 2>>, <<MaxCols, MaxRows>>}

\* 'a', a 2-wide CJK ideograph, a combining acute accent
PrintChars == {97, 20013, 769}

\* BS HT LF VT FF CR SO SI
ControlBytes == {8, 9, 10, 11, 12, 13, 14, 15}

\* CUU CUD CUF CUB CNL CPL ICH DCH ECH IL DL SU SD REP with a count
CountFinals == {65, 66, 67, 68, 69, 70, 64, 80, 88, 76, 77, 83, 84, 98}

SgrParams == {<<0>>, <<1>>, <<22>>, <<31>>, <<1, 32>>, <<7>>, <<4>>, <<42>>,
              <<38, 5, 1>>, <<38, 5>>, <<48, 2, 1, 2, 3>>}

StbmParams == {<<0>>, <<1, 2>>, <<2, 3>>, <<2, 1>>, <<2, 2>>, <<2, 9>>, <<9, 9>>}

CsiInputs ==
    {<<f, <<n>>, FALSE>> : f \in CountFinals, n \in {0, 2}}
        \cup {<<f, <<n>>, FALSE>> : f \in {71, 100}, n \in {0, 2, 9}}
        \cup {<<72, <<r, c>>, FALSE>> : r \in 1..2, c \in 1..2}
        \cup {<<74, <<m>>, FALSE>> : m \in 0..3}
        \cup {<<75, <<m>>, FALSE>> : m \in 0..2}
        \cup {<<115, <<0>>, FALSE>>, <<117, <<0>>, FALSE>>}
        \cup {<<114, p, FALSE>> : p \in StbmParams}
        \cup {<<109, p, FALSE>> : p \in SgrParams}
        \cup {<<f, <<m>>, TRUE>> : f \in {104, 108}, m \in {25, 47, 1047, 1049}}
        \cup {<<104, <<1049>>, FALSE>>}

\* ESC D, M, E, c, 7, 8 and the designations ESC ( 0, ESC ( B, ESC ) 0
EscInputs ==
    {<<<<>>, b>> : b \in {68, 77, 69, 99, 55, 56}}
        \cup {<<<<40>>, 48>>, <<<<40>>, 66>>, <<<<41>>, 48>>}

\* OSC 4;1;#ff0000   OSC 104   OSC 104;1   OSC 11;#003366   OSC 111   OSC 10;?
OscInputs ==
    {<<<<52>>, <<49>>, <<35, 102, 102, 48, 48, 48, 48>>>>,
     <<<<49, 48, 52>>>>,
     <<<<49, 48, 52>>, <<49>>>>,
     <<<<49, 49>>, <<35, 48, 48, 51, 51, 54, 54>>>>,
     <<<<49, 49, 49>>>>,
     <<<<49, 48>>, <<63>>>>}

\* ------------------------------------------------------------------ ghost
\* What hist is after a step from g to h, by1049 telling whether the step
\* was DECSET 1049. Entering the alternate screen records the primary screen
\* (cursor, cells, whether the entry was that of DECSET 1049); a resize
\* while the alternate screen is live marks the record dirty; the step that
\* leaves the alternate screen keeps the record for one state, marked not
\* live; any later step on the primary screen forgets it.
hist_after(g, h, resized, by1049) ==
    IF g.in_alt /\ ~h.in_alt
    THEN IF hist = None THEN None ELSE Some([hist[1] EXCEPT !.live = FALSE])
    ELSE IF ~h.in_alt THEN None
    ELSE IF ~g.in_alt
         THEN Some([cursor |-> cursor_pos(g),
                    cells |-> g.cells,
                    via1049 |-> by1049,
                    dirty |-> FALSE,
                    live |-> TRUE])
    ELSE IF resized /\ hist # None THEN Some([hist[1] EXCEPT !.dirty = TRUE])
    ELSE hist

\* The private-mode command CSI ? ... h, among the inputs <<final byte,
\* parameters, private>>, enters through the arm `1049 =>
\* self.enter_alternate(true, true)`: the loop over the parameters runs the
\* arm of each, and enter_alternate returns at once after the first entry,
\* so the first of 47, 1047 and 1049 in the list is the one that enters.
decset_1049(i) ==
    /\ i[3]
    /\ i[1] = 104
    /\ SelectSeq(i[2], LAMBDA q : q \in {47, 1047, 1049}) # <<>>
    /\ SelectSeq(i[2], LAMBDA q : q \in {47, 1047, 1049})[1] = 1049

ApplyAs(h, resized, by1049) ==
    /\ steps < MaxSteps
    /\ ~grid.panicked
    /\ grid' = h
    /\ steps' = steps + 1
    /\ hist' = hist_after(grid, h, resized, by1049)
    /\ UNCHANGED <<write_vars, key_vars, bytes_vars, pump_vars>>

Apply(h, resized) == ApplyAs(h, resized, FALSE)

PerformPrint == \E c \in PrintChars : Apply(print(grid, c), FALSE)

PerformExecute == \E b \in ControlBytes : Apply(execute(grid, b), FALSE)

PerformCsi ==
    \E i \in CsiInputs :
        ApplyAs(csi_dispatch(grid, i[2], IF i[3] THEN <<63>> ELSE <<>>, FALSE, i[1]),
                FALSE, decset_1049(i))

PerformEsc == \E i \in EscInputs : Apply(esc_dispatch(grid, i[1], i[2]), FALSE)

PerformOsc == \E p \in OscInputs : Apply(osc_dispatch(grid, p), FALSE)

Resize ==
    \E c \in 0..MaxCols, r \in 0..MaxRows :
        Apply(resize(grid, c, r), resize_returns(grid, c, r))

\* The write pump as spawn_pty_threads starts it: waiting in recv() on the
\* empty input channel, whose only Sender the TerminalUI holds.
InitWriteIdle ==
    /\ in_chan = <<>>
    /\ tx_alive = TRUE
    /\ wr_pc = "recv"
    /\ wr_bytes = <<>>
    /\ wr_n = 0
    /\ pty_in = <<>>
    /\ pty_unread = 0
    /\ wr_log = <<>>
    /\ pty_ws = None
    /\ sys_log = <<>>

\* The key map before any event.
InitKeyIdle ==
    /\ key_out = <<>>
    /\ key_ev = None
    /\ key_prev = <<>>

InitIo == InitWriteIdle /\ InitKeyIdle

\* The read pump, the UI frames and the byte feed at rest.
InitReadIdle ==
    /\ input = <<>>
    /\ fed = <<>>
    /\ pty_out = <<>>
    /\ rd_pc = "done"
    /\ rd_buf = <<>>
    /\ rd_log = <<>>
    /\ rd_left = FALSE
    /\ out_chan = <<>>
    /\ rx_alive = TRUE
    /\ repaints = 0
    /\ ui_pc = "idle"
    /\ needs_repaint = FALSE
    /\ received_data = FALSE

\* The pumps, the key map and the byte feed at rest.
InitRest ==
    /\ InitIo
    /\ steps = 0
    /\ hist = None
    /\ InitReadIdle

Init ==
    /\ \E d \in Dims : grid = new(d[1], d[2])
    /\ InitRest

Next == PerformPrint \/ PerformExecute \/ PerformCsi \/ PerformEsc \/ PerformOsc \/ Resize

Spec == Init /\ [][Next]_vars

\* ======================================================================
\* The same engine, deeper and with fewer inputs: the alternate screen.
\* ======================================================================
MaxAltSteps == 5

\* CUP 2;2, ED 2, IL, ECH, SU, DECSTBM 1;2, CSI s, CSI u, and DECSET/DECRST
\* 47, 1047, 1049
AltCsiInputs ==
    {<<72, <<2, 2>>, FALSE>>, <<74, <<2>>, FALSE>>, <<76, <<0>>, FALSE>>,
     <<88, <<0>>, FALSE>>, <<83, <<0>>, FALSE>>, <<114, <<1, 2>>, FALSE>>,
     <<115, <<0>>, FALSE>>, <<117, <<0>>, FALSE>>}
        \cup {<<f, <<m>>, TRUE>> : f \in {104, 108}, m \in {47, 1047, 1049}}

\* ESC c, ESC 7, ESC 8
AltEscInputs == {<<<<>>, 99>>, <<<<>>, 55>>, <<<<>>, 56>>}

ApplyAltAs(h, resized, by1049) ==
    /\ steps < MaxAltSteps
    /\ ~grid.panicked
    /\ grid' = h
    /\ steps' = steps + 1
    /\ hist' = hist_after(grid, h, resized, by1049)
    /\ UNCHANGED <<write_vars, key_vars, bytes_vars, pump_vars>>

ApplyAlt(h, resized) == ApplyAltAs(h, resized, FALSE)

AltPrint == \E c \in {97} : ApplyAlt(print(grid, c), FALSE)

AltExecute == \E b \in {10} : ApplyAlt(execute(grid, b), FALSE)

AltCsi ==
    \E i \in AltCsiInputs :
        ApplyAltAs(csi_dispatch(grid, i[2], IF i[3] THEN <<63>> ELSE <<>>, FALSE, i[1]),
                   FALSE, decset_1049(i))

AltEsc == \E i \in AltEscInputs : ApplyAlt(esc_dispatch(grid, i[1], i[2]), FALSE)

AltResize ==
    \E d \in {<<MaxCols, MaxRows>>, <<MaxCols - 1, MaxRows - 1>>} :
        ApplyAlt(resize(grid, d[1], d[2]), resize_returns(grid, d[1], d[2]))

InitAlt ==
    /\ grid = new(MaxCols, MaxRows)
    /\ InitRest

NextAlt == AltPrint \/ AltExecute \/ AltCsi \/ AltEsc \/ AltResize

SpecAlt == InitAlt /\ [][NextAlt]_vars

\* ======================================================================
\* The same engine with the inputs that set what reset, erase and resize
\* have to deal with: rendition, colours, character sets, the scroll region,
\* the saved cursor and the alternate screen.
\* ======================================================================
MaxRendSteps == 3

ApplyRend(h, resized) ==
    /\ steps < MaxRendSteps
    /\ ~grid.panicked
    /\ grid' = h
    /\ steps' = steps + 1
    /\ hist' = hist_after(grid, h, resized, FALSE)
    /\ UNCHANGED <<write_vars, key_vars, bytes_vars, pump_vars>>

\* 'a', 'q' (a line-drawing character in the DEC special set) and a 2-wide
\* CJK ideograph
RendPrint == \E c \in {97, 113, 20013} : ApplyRend(print(grid, c), FALSE)

\* LF, SO and SI
RendExecute == \E b \in {10, 14, 15} : ApplyRend(execute(grid, b), FALSE)

\* CUP 2;2, ED 0..3, SGR 0 / 1 / 4 / 7 / 31 / 42, DECSTBM 1;2, DECSET/DECRST 47
RendCsi ==
    \E i \in {<<72, <<2, 2>>, FALSE>>, <<114, <<1, 2>>, FALSE>>,
              <<104, <<47>>, TRUE>>, <<108, <<47>>, TRUE>>}
                 \cup {<<74, <<m>>, FALSE>> : m \in 0..3}
                 \cup {<<109, <<p>>, FALSE>> : p \in {0, 1, 4, 7, 31, 42}} :
        ApplyRend(csi_dispatch(grid, i[2], IF i[3] THEN <<63>> ELSE <<>>, FALSE, i[1]), FALSE)

\* ESC c, ESC 7, ESC ( 0, ESC ) 0
RendEsc ==
    \E i \in {<<<<>>, 99>>, <<<<>>, 55>>, <<<<40>>, 48>>, <<<<41>>, 48>>} :
        ApplyRend(esc_dispatch(grid, i[1], i[2]), FALSE)

\* OSC 4;1;#ff0000 and OSC 10, 11, 12 with #003366
RendOsc ==
    \E p \in {<<<<52>>, <<49>>, <<35, 102, 102, 48, 48, 48, 48>>>>}
                 \cup {<<<<49, n>>, <<35, 48, 48, 51, 51, 54, 54>>>> : n \in 48..50} :
        ApplyRend(osc_dispatch(grid, p), FALSE)

\* resize to nothing (one cell), to a narrower grid and to the largest grid
RendResize ==
    \E d \in {<<0, 0>>, <<MaxCols - 1, MaxRows>>, <<MaxCols, MaxRows>>} :
        ApplyRend(resize(grid, d[1], d[2]), resize_returns(grid, d[1], d[2]))

InitRend ==
    /\ \E d \in {<<2, 2>>, <<MaxCols, MaxRows>>} : grid = new(d[1], d[2])
    /\ InitRest

NextRend == RendPrint \/ RendExecute \/ RendCsi \/ RendEsc \/ RendOsc \/ RendResize

SpecRend == InitRend /\ [][NextRend]_vars

\* ======================================================================
\* The same engine with the inputs that move lines: scroll regions, line
\* feeds and reverse index, tabs, insert/delete line, scroll up/down, and
\* wide characters at the right margin.
\* ======================================================================
MaxScrollSteps == 3

ApplyScroll(h) ==
    /\ steps < MaxScrollSteps
    /\ ~grid.panicked
    /\ grid' = h
    /\ steps' = steps + 1
    /\ hist' = hist_after(grid, h, FALSE, FALSE)
    /\ UNCHANGED <<write_vars, key_vars, bytes_vars, pump_vars>>

\* 'a', 'b' and a 2-wide CJK ideograph
ScrollPrint == \E c \in {97, 98, 20013} : ApplyScroll(print(grid, c))

\* HT and LF
ScrollExecute == \E b \in {9, 10} : ApplyScroll(execute(grid, b))

\* CUP r;1 and r;last, DECSTBM 1;2 / 2;3 / 2;9, SGR 42, and IL DL SU SD with counts
\* 1 (default) and 2
ScrollCsi ==
    \E i \in {<<72, <<r, c>>>> : r \in 1..MaxRows, c \in {1, MaxCols}}
                 \cup {<<114, p>> : p \in {<<1, 2>>, <<2, 3>>, <<2, 9>>}}
                 \cup {<<109, <<42>>>>}
                 \cup {<<f, <<n>>>> : f \in {76, 77, 83, 84}, n \in {0, 2}} :
        ApplyScroll(csi_dispatch(grid, i[2], <<>>, FALSE, i[1]))

\* ESC D and ESC M
ScrollEsc == \E b \in {68, 77} : ApplyScroll(esc_dispatch(grid, <<>>, b))

\* a grid of one cell, a grid one column wide and the largest grid
InitScroll ==
    /\ \E d \in {<<1, 1>>, <<1, MaxRows>>, <<MaxCols, MaxRows>>} : grid = new(d[1], d[2])
    /\ InitRest

NextScroll == ScrollPrint \/ ScrollExecute \/ ScrollCsi \/ ScrollEsc

SpecScroll == InitScroll /\ [][NextScroll]_vars

\* ======================================================================
\* The palette driven by OSC 4 and OSC 104 alone.
\* ======================================================================
MaxOscSteps == 2

\* The decimal digits of n as bytes.
RECURSIVE decimal(_)
decimal(n) == IF n < 10 THEN <<48 + n>> ELSE Append(decimal(n \div 10), 48 + (n % 10))

\* Palette indices at the edges of the 16 colours, the colour cube and the
\* grey ramp.
PaletteIndices == {0, 1, 7, 8, 15, 16, 52, 231, 232, 255}

\* #ff0000, #0f8 and rgb:00/80/ff with the colours they denote.
ColourSpecs ==
    {<<<<35, 102, 102, 48, 48, 48, 48>>, from_rgb(255, 0, 0)>>,
     <<<<35, 48, 102, 56>>, from_rgb(0, 255, 136)>>,
     <<<<114, 103, 98, 58, 48, 48, 47, 56, 48, 47, 102, 102>>, from_rgb(0, 128, 255)>>}

\* OSC 4;i;spec   OSC 104;i   OSC 104
OscPaletteInputs ==
    {<<<<52>>, decimal(i), s[1]>> : i \in PaletteIndices, s \in ColourSpecs}
        \cup {<<<<49, 48, 52>>, decimal(i)>> : i \in PaletteIndices}
        \cup {<<<<49, 48, 52>>>>}

OscPalette ==
    \E p \in OscPaletteInputs :
        /\ steps < MaxOscSteps
        /\ grid' = osc_dispatch(grid, p)
        /\ steps' = steps + 1
        /\ UNCHANGED <<write_vars, key_vars, hist, bytes_vars, pump_vars>>

InitOsc ==
    /\ grid = new(MaxCols, MaxRows)
    /\ InitRest

NextOsc == OscPalette

SpecOsc == InitOsc /\ [][NextOsc]_vars

\* ======================================================================
\* The engine driven by bytes: write_bytes called with arbitrary chunks.
\* ======================================================================
MaxStream == 4
MaxChunk == 2

\* ESC [ 4 H m a, and the three bytes E4 B8 AD of a 2-wide ideograph
ByteAlphabet == {27, 91, 52, 72, 109, 97, 228, 184, 173}

\* The byte strings of length 1..n over ByteAlphabet.
RECURSIVE Chunks(_)
Chunks(n) ==
    IF n = 0 THEN {}
    ELSE {<<b>> : b \in ByteAlphabet}
            \cup {Append(c, b) : c \in Chunks(n - 1), b \in ByteAlphabet}

\* ESC[3<N>m ESC[1m a ESC[22m a
SgrBoldInput(N) ==
    <<27, 91, 51, 48 + N, 109, 27, 91, 49, 109, 97, 27, 91, 50, 50, 109, 97>>

\* ESC[1m ESC[3<N>m a
BoldSgrInput(N) == <<27, 91, 49, 109, 27, 91, 51, 48 + N, 109, 97>>

\* The values of N the scenarios are run with.
SgrBoldN == {0, 1, 7}

\* End-to-end scenarios: ESC[31mRED ESC[0m X, ESC[?1049h alt ESC[?1049l,
\* ESC]11;#003366 BEL ESC[2J, ESC(0 q ESC(B q, a device control string
\* closed by ST followed by an SGR with a subparameter
\* (ESC P 1;q x ST a ESC[4:3m b), and the bold scenarios.
Scenarios ==
    {SgrBoldInput(N) : N \in SgrBoldN} \cup {BoldSgrInput(N) : N \in SgrBoldN} \cup
    {<<27, 91, 51, 49, 109, 82, 69, 68, 27, 91, 48, 109, 32, 88>>,
     <<27, 91, 63, 49, 48, 52, 57, 104, 97, 108, 116, 27, 91, 63, 49, 48, 52, 57, 108>>,
     <<27, 93, 49, 49, 59, 35, 48, 48, 51, 51, 54, 54, 7, 27, 91, 50, 74>>,
     <<27, 40, 48, 113, 27, 40, 66, 113>>,
     <<27, 80, 49, 59, 113, 120, 156, 97, 27, 91, 52, 58, 51, 109, 98>>}

\* The chunks the next call may carry: the next bytes of the scenario, cut
\* anywhere, or without a scenario any bytes that fit the stream.
NextChunks ==
    IF input = <<>>
    THEN {c \in Chunks(MaxChunk) : Len(fed) + Len(c) <= MaxStream}
    ELSE {SubSeq(input, 1, n) : n \in 1..Min(MaxChunk, Len(input))}

\* One call of write_bytes.
WriteChunk ==
    \E c \in NextChunks :
        /\ ~grid.panicked
        /\ grid' = write_bytes(grid, c)
        /\ fed' = fed \o c
        /\ input' = SubSeq(input, Len(c) + 1, Len(input))
        /\ UNCHANGED <<write_vars, key_vars, steps, hist, pump_vars>>

InitBytes ==
    /\ InitIo
    /\ grid = new(MaxCols, MaxRows)
    /\ steps = 0
    /\ hist = None
    /\ input \in Scenarios \cup {<<>>}
    /\ fed = <<>>
    /\ pty_out = <<>>
    /\ rd_pc = "done"
    /\ rd_buf = <<>>
    /\ rd_log = <<>>
    /\ rd_left = FALSE
    /\ out_chan = <<>>
    /\ rx_alive = TRUE
    /\ repaints = 0
    /\ ui_pc = "idle"
    /\ needs_repaint = FALSE
    /\ received_data = FALSE

NextBytes == WriteChunk

SpecBytes == InitBytes /\ [][NextBytes]_vars

\* ======================================================================
\* The read pump (app.rs) and the UI frames (ui.rs) around the channel.
\* ======================================================================
MaxPtyBytes == 3

\* `let mut buffer = [0u8; 8192]`
READ_BUFFER == 8192

\* TerminalUI::new builds TerminalGrid::new(80, 24)
INIT_COLS == 80
INIT_ROWS == 24

\* 'a' and LF, the bytes the shell writes
PtyBytes == {97, 10}

\* The process group of the shell the program spawned (child.id()) and the
\* foreground process group of the terminal when the shell runs a job.
ShellPgids == {5}
ForegroundPgids == {7}

\* What ioctl(fd, TIOCSWINSZ, &ws) returns: 0, or -1 on failure.
IoctlResults == {0, -1}

\* What tcgetpgrp(fd) returns: the foreground process group, 0 when there is
\* none, or -1 on failure.
TcgetpgrpResults == {-1, 0} \cup ForegroundPgids

\* ioctl(fd, TIOCSWINSZ, &winsize { ws_row: rows, ws_col: cols, .. }) on the
\* window size ws of the PTY: the size is set unless the call fails.
set_winsize_raw(ws, cols, rows, ret) ==
    IF ret = 0 THEN Some(<<cols, rows>>) ELSE ws

\* Faulty variant of apply_resize: the signal is sent before the size is set.
apply_resize_signal_first(ws, cols, rows, shell_pgid, ret, pgid) ==
    [ws |-> IF ret = 0 THEN Some(<<cols, rows>>) ELSE ws,
     calls |-> <<<<"tcgetpgrp", pgid>>,
                 <<"killpg", IF pgid > 0 THEN pgid ELSE shell_pgid, "SIGWINCH">>,
                 <<"TIOCSWINSZ", rows, cols>>>>]

\* pty::apply_resize on a PTY whose window size is ws, where the ioctl
\* returns ret and tcgetpgrp returns pgid: the window size afterwards and
\* the system calls made, in order.
apply_resize(ws, cols, rows, shell_pgid, ret, pgid) ==
    [ws |-> IF ret = 0 THEN Some(<<cols, rows>>) ELSE ws,
     calls |-> <<<<"TIOCSWINSZ", rows, cols>>,
                 <<"tcgetpgrp", pgid>>,
                 <<"killpg", IF pgid > 0 THEN pgid ELSE shell_pgid, "SIGWINCH">>>>]

\* The grid sizes the window can give: floor(available / cell size).
WinDims == {<<MaxCols, MaxRows>>, <<0, 0>>}

RECURSIVE Flatten(_)
Flatten(chunks) == IF chunks = <<>> THEN <<>> ELSE Head(chunks) \o Flatten(Tail(chunks))

IsPrefix(a, b) == Len(a) <= Len(b) /\ SubSeq(b, 1, Len(a)) = a

\* ------------------------------------------------------ keymap.rs
\* str::as_bytes of one char: its UTF-8 encoding.
utf8_encode(cp) ==
    IF cp < 128 THEN <<cp>>
    ELSE IF cp < 2048 THEN <<192 + (cp \div 64), 128 + (cp % 64)>>
    ELSE IF cp < 65536
    THEN <<224 + (cp \div 4096), 128 + ((cp \div 64) % 64), 128 + (cp % 64)>>
    ELSE <<240 + (cp \div 262144), 128 + ((cp \div 4096) % 64),
           128 + ((cp \div 64) % 64), 128 + (cp % 64)>>

\* text.as_bytes() of a string given by its chars.
RECURSIVE as_bytes(_)
as_bytes(text) ==
    IF text = <<>> THEN <<>> ELSE utf8_encode(Head(text)) \o as_bytes(Tail(text))

\* An egui::Key: the enum variant and the bytes of Key::name().
Key(id, name) == [id |-> id, name |-> name]

\* egui::Event::Text, egui::Event::Key and any other event.
TextEvent(text) ==
    [type |-> "Text", text |-> text, key |-> Key("", <<>>), pressed |-> FALSE,
     ctrl |-> FALSE]
KeyEvent(key, pressed, ctrl) ==
    [type |-> "Key", text |-> <<>>, key |-> key, pressed |-> pressed, ctrl |-> ctrl]
OtherEvent ==
    [type |-> "Other", text |-> <<>>, key |-> Key("", <<>>), pressed |-> FALSE,
     ctrl |-> FALSE]

ctrl_key_byte(key) ==
    IF Len(key.name) = 1 /\ key.name[1] >= 65 /\ key.name[1] <= 90
    THEN Some((key.name[1] - 65) + 1)
    ELSE None

\* The bytes push_key_bytes appends for F<n>, n in 1..10.
function_key_bytes(n) ==
    IF n <= 4 THEN <<27, 79, 80 + (n - 1)>>
    ELSE <<27, 91, 48 + (<<15, 17, 18, 19, 20, 21>>[(n - 5) + 1] \div 10),
           48 + (<<15, 17, 18, 19, 20, 21>>[(n - 5) + 1] % 10), 126>>

\* push_key_bytes: out after the call (the bool it returns is dropped).
push_key_bytes(key, out) ==
    CASE key.id = "Enter" -> Append(out, 13)
      [] key.id = "Backspace" -> Append(out, 127)
      [] key.id = "Tab" -> Append(out, 9)
      [] key.id = "ArrowUp" -> out \o <<27, 91, 65>>
      [] key.id = "ArrowDown" -> out \o <<27, 91, 66>>
      [] key.id = "ArrowRight" -> out \o <<27, 91, 67>>
      [] key.id = "ArrowLeft" -> out \o <<27, 91, 68>>
      [] OTHER ->
            IF key.name = <<>> \/ Head(key.name) # 70 THEN out
            ELSE IF parse_uint(Tail(key.name), 255) < 1
                      \/ parse_uint(Tail(key.name), 255) > 10
            THEN out
            ELSE out \o function_key_bytes(parse_uint(Tail(key.name), 255))

\* Faulty variant of append_input_from_event: a Text event is appended also
\* while Ctrl is held.
append_input_text_always(event, mods_ctrl, out) ==
    IF event.type = "Text" THEN out \o as_bytes(event.text)
    ELSE IF event.type = "Key" /\ event.pressed
    THEN IF event.key.id = "Escape" THEN Append(out, 27)
         ELSE IF event.ctrl
         THEN IF ctrl_key_byte(event.key) # None
              THEN Append(out, ctrl_key_byte(event.key)[1])
              ELSE out
         ELSE push_key_bytes(event.key, out)
    ELSE out

\* mods_ctrl is mods.ctrl, event.ctrl is the modifiers.ctrl of a Key event.
append_input_from_event(event, mods_ctrl, out) ==
    IF event.type = "Text"
    THEN IF ~mods_ctrl THEN out \o as_bytes(event.text) ELSE out
    ELSE IF event.type = "Key" /\ event.pressed
    THEN IF event.key.id = "Escape" THEN Append(out, 27)
         ELSE IF event.ctrl
         THEN IF ctrl_key_byte(event.key) # None
              THEN Append(out, ctrl_key_byte(event.key)[1])
              ELSE out
         ELSE push_key_bytes(event.key, out)
    ELSE out

\* "a", "ab", U+00E9, U+4E2D and U+1F600, each with its UTF-8 bytes.
Texts ==
    {<<<<97>>, <<97>>>>,
     <<<<97, 98>>, <<97, 98>>>>,
     <<<<233>>, <<195, 169>>>>,
     <<<<20013>>, <<228, 184, 173>>>>,
     <<<<128512>>, <<240, 159, 152, 128>>>>}

\* The letters A, C, F, Z; Escape, Enter, Backspace, Tab, the arrows, the
\* digit 1 and the function keys F1, F4, F5, F10, F11.
Keys ==
    {Key("Letter", <<b>>) : b \in {65, 67, 70, 90}}
        \cup {Key("F", <<70>> \o decimal(n)) : n \in {1, 4, 5, 10, 11}}
        \cup {Key("Escape", <<69, 115, 99, 97, 112, 101>>),
              Key("Enter", <<69, 110, 116, 101, 114>>),
              Key("Backspace", <<66, 97, 99, 107, 115, 112, 97, 99, 101>>),
              Key("Tab", <<84, 97, 98>>),
              Key("ArrowUp", <<85, 112>>),
              Key("ArrowDown", <<68, 111, 119, 110>>),
              Key("ArrowRight", <<82, 105, 103, 104, 116>>),
              Key("ArrowLeft", <<76, 101, 102, 116>>),
              Key("Num1", <<49>>)}

Events ==
    {TextEvent(t[1]) : t \in Texts}
        \cup {KeyEvent(k, pressed, ctrl) : k \in Keys, pressed \in BOOLEAN, ctrl \in BOOLEAN}
        \cup {OtherEvent}

\* Faulty variant of sent_chunk: `buffer[..n - 1]`, one byte short.
sent_chunk_short(buffer, n) == SubSeq(buffer, 1, n - 1)

\* buffer[..n].to_vec()
sent_chunk(buffer, n) == SubSeq(buffer, 1, n)

\* tx_pty_output.send(chunk) on a live channel
chan_send(chan, chunk) == Append(chan, chunk)

\* The shell writes one byte to the slave side.
ShellWrite ==
    \E b \in PtyBytes :
        /\ Len(rd_log) + Len(pty_out) < MaxPtyBytes
        /\ pty_out' = Append(pty_out, b)
        /\ UNCHANGED <<write_vars, key_vars, engine_vars, bytes_vars, rd_pc, rd_buf, rd_log, rd_left, out_chan, rx_alive,
                       repaints, ui_pc, frame_vars>>

\* read() returns Ok(n), n > 0: the first n waiting bytes.
PumpRead ==
    \E n \in 1..Min(Len(pty_out), READ_BUFFER) :
        /\ rd_pc = "read"
        /\ rd_buf' = SubSeq(pty_out, 1, n)
        /\ rd_log' = rd_log \o SubSeq(pty_out, 1, n)
        /\ pty_out' = SubSeq(pty_out, n + 1, Len(pty_out))
        /\ rd_pc' = "send"
        /\ UNCHANGED <<write_vars, key_vars, engine_vars, bytes_vars, rd_left, out_chan, rx_alive,
                       repaints, ui_pc, frame_vars>>

\* read() returns Ok(0) or Err: the loop breaks.
PumpReadEnd ==
    /\ rd_pc = "read"
    /\ rd_pc' = "done"
    /\ rd_left' = (out_chan # <<>>)
    /\ UNCHANGED <<write_vars, key_vars, engine_vars, bytes_vars, pty_out, rd_buf, rd_log, out_chan, rx_alive,
                   repaints, ui_pc, frame_vars>>

\* tx_pty_output.send(buffer[..n].to_vec()): Err once the receiver is gone.
PumpSend ==
    /\ rd_pc = "send"
    /\ IF rx_alive
       THEN /\ out_chan' = chan_send(out_chan, sent_chunk(rd_buf, Len(rd_buf)))
            /\ rd_pc' = "repaint"
            /\ rd_left' = rd_left
       ELSE /\ out_chan' = out_chan
            /\ rd_pc' = "done"
            /\ rd_left' = (out_chan # <<>>)
    /\ rd_buf' = <<>>
    /\ UNCHANGED <<write_vars, key_vars, engine_vars, bytes_vars, pty_out, rd_log, rx_alive, repaints, ui_pc,
                   frame_vars>>

\* Faulty variant of PumpRepaint: the pump goes back to read and requests
\* no repaint.
PumpNoRepaint ==
    /\ rd_pc = "repaint"
    /\ rd_pc' = "read"
    /\ UNCHANGED <<write_vars, key_vars, engine_vars, bytes_vars, pty_out, rd_buf, rd_log, rd_left, out_chan, rx_alive,
                   repaints, ui_pc, frame_vars>>

\* ctx.request_repaint()
PumpRepaint ==
    /\ rd_pc = "repaint"
    /\ repaints' = repaints + 1
    /\ rd_pc' = "read"
    /\ UNCHANGED <<write_vars, key_vars, engine_vars, bytes_vars, pty_out, rd_buf, rd_log, rd_left, out_chan, rx_alive,
                   ui_pc, frame_vars>>

\* TerminalUI::update up to the drain loop, in a window that gives d[1]
\* columns and d[2] rows: the grid follows the window, and when resize
\* returns true the size is set on the PTY (cols as u16, rows as u16; the
\* ioctl returns ret), SIGWINCH
\* is sent to the process group tcgetpgrp(slave_fd) returns (pgid), or to
\* the shell's when the query fails, and needs_repaint is set.
frame_begin(d, ret, pgid, shell_pgid) ==
    /\ ui_pc = "idle"
    /\ rx_alive
    /\ ~grid.panicked
    /\ grid' = resize(grid, Max(d[1], 1), Max(d[2], 1))
    /\ IF resize_returns(grid, Max(d[1], 1), Max(d[2], 1))
       THEN /\ pty_ws' = set_winsize_raw(pty_ws, Max(d[1], 1) % 65536,
                                          Max(d[2], 1) % 65536, ret)
            /\ sys_log' = <<<<"TIOCSWINSZ", Max(d[2], 1) % 65536, Max(d[1], 1) % 65536>>,
                            <<"tcgetpgrp", pgid>>,
                            <<"killpg", IF pgid > 0 THEN pgid ELSE shell_pgid, "SIGWINCH">>>>
       ELSE /\ pty_ws' = pty_ws
            /\ sys_log' = <<>>
    /\ needs_repaint' = resize_returns(grid, Max(d[1], 1), Max(d[2], 1))
    /\ received_data' = FALSE
    /\ repaints' = 0
    /\ ui_pc' = "drain"
    /\ UNCHANGED <<in_chan, tx_alive, wr_pc, wr_call_vars, pty_in, wr_log, key_vars, steps, hist, bytes_vars,
                   pty_out, rd_pc, rd_buf, rd_log, rd_left, out_chan, rx_alive>>

\* What tcgetpgrp(self.slave_fd) returns in the UI process: the slave is
\* the controlling terminal of the shell's session (setsid and TIOCSCTTY in
\* spawn_shell), not of the UI process, so the query fails.
UiTcgetpgrpResults == {-1}

\* A frame in which the ioctl succeeds.
FrameBegin ==
    \E d \in WinDims, pgid \in UiTcgetpgrpResults, shell \in ShellPgids :
        frame_begin(d, 0, pgid, shell)

\* One iteration of `while let Ok(bytes) = self.rx.try_recv()`.
FrameRecv ==
    /\ ui_pc = "drain"
    /\ out_chan # <<>>
    /\ ~grid.panicked
    /\ grid' = write_bytes(grid, Head(out_chan))
    /\ fed' = fed \o Head(out_chan)
    /\ out_chan' = Tail(out_chan)
    /\ received_data' = TRUE
    /\ UNCHANGED <<write_vars, key_vars, steps, hist, input, pty_out, rd_pc, rd_buf, rd_log, rd_left, rx_alive, repaints,
                   ui_pc, needs_repaint>>

\* The loop over input.events: input_bytes after every event of the frame
\* has been appended.
RECURSIVE frame_input(_, _, _)
frame_input(events, mods_ctrl, out) ==
    IF events = <<>> THEN out
    ELSE frame_input(Tail(events), mods_ctrl,
                     append_input_from_event(Head(events), mods_ctrl, out))

\* The Receiver of the input channel exists: the write pump owns it and
\* drops it when its loop ends.
rx_input_alive == wr_pc # "done"

\* tx_input.send(input_bytes), whose result is dropped: the bytes are queued
\* for the write pump, as PtyEvent::Input, while its Receiver exists
\* (alive); send returns Err and queues nothing once it is dropped.
input_send(chan, bytes, alive) ==
    IF bytes # <<>> /\ alive THEN Append(chan, [kind |-> "Input", bytes |-> bytes,
                                                cols |-> 0, rows |-> 0])
    ELSE chan

\* TerminalUI::update from the end of the drain loop (try_recv() finds the
\* channel empty) to its return, in a frame with the input events `events`
\* and the modifier state mods_ctrl: needs_repaint is also set when data was
\* received and the grid reports changes (has_changes, the value of
\* grid.has_changes()), the bytes of the events are sent to the write pump,
\* the grid is painted, and one more repaint is requested when
\* needs_repaint is set.  steps counts the frames that called send.
frame_end(events, mods_ctrl, has_changes) ==
    /\ ui_pc = "drain"
    /\ out_chan = <<>>
    /\ in_chan' = input_send(in_chan, frame_input(events, mods_ctrl, <<>>), rx_input_alive)
    /\ steps' = IF frame_input(events, mods_ctrl, <<>>) # <<>> THEN steps + 1 ELSE steps
    /\ repaints' = IF needs_repaint \/ (received_data /\ has_changes)
                   THEN repaints + 1
                   ELSE repaints
    /\ needs_repaint' = FALSE
    /\ received_data' = FALSE
    /\ ui_pc' = "idle"
    /\ UNCHANGED <<tx_alive, wr_pc, wr_call_vars, pty_in, wr_log, pty_ws, sys_log, key_vars,
                   grid, hist, bytes_vars, pty_out, rd_pc, rd_buf, rd_log, rd_left, out_chan, rx_alive>>

\* The end of a frame without input events.
FrameEnd == \E has_changes \in BOOLEAN : frame_end(<<>>, FALSE, has_changes)

\* The window closes: the TerminalUI is dropped, and with it its fields:
\* the Receiver rx of the output channel, with the chunks still queued, and
\* tx_input, the only Sender of the input channel.
CloseUI ==
    /\ ui_pc = "idle"
    /\ rx_alive
    /\ rx_alive' = FALSE
    /\ out_chan' = <<>>
    /\ tx_alive' = FALSE
    /\ UNCHANGED <<in_chan, wr_pc, wr_call_vars, pty_in, wr_log, pty_ws, sys_log, key_vars,
                   engine_vars, bytes_vars, pty_out, rd_pc, rd_buf, rd_log, rd_left, repaints, ui_pc,
                   frame_vars>>

\* ----------------------------------------------- the write pump (app.rs)
\* The bytes the PTY holds for the shell at most: a write on the master
\* waits while that many accepted bytes have not been read from the slave.
MaxPtyRoom == 2

\* recv() returns PtyEvent::Input(bytes): the event has left the channel and
\* write(master_write.as_fd(), &bytes) is entered.
WritePumpInput ==
    /\ wr_pc = "recv"
    /\ in_chan # <<>>
    /\ Head(in_chan).kind = "Input"
    /\ in_chan' = Tail(in_chan)
    /\ wr_bytes' = Head(in_chan).bytes
    /\ wr_n' = 0
    /\ wr_pc' = "write"
    /\ UNCHANGED <<engine_vars, bytes_vars, pump_vars, key_vars, tx_alive, pty_in, pty_unread,
                   wr_log, pty_ws, sys_log>>

\* Inside the write call: the PTY takes the next k bytes of the buffer, at
\* most as many as it has room for; the shell can read them while the call
\* has not returned.
WritePumpAccept ==
    /\ wr_pc = "write"
    /\ \E k \in 1..Min(Len(wr_bytes) - wr_n, MaxPtyRoom - pty_unread) :
          /\ pty_in' = pty_in \o SubSeq(wr_bytes, wr_n + 1, wr_n + k)
          /\ wr_n' = wr_n + k
          /\ pty_unread' = pty_unread + k
    /\ UNCHANGED <<engine_vars, bytes_vars, pump_vars, key_vars, in_chan, tx_alive, wr_pc,
                   wr_bytes, wr_log, pty_ws, sys_log>>

\* The results write(fd, &bytes) can return when the PTY has accepted n of
\* the bytes and has room for `room` more: Ok(n) once all are accepted, or
\* when a signal ends the wait for room after a part was accepted (a short
\* write); Err (-1) while none is accepted (EIO once the slave side is
\* closed, EINTR).
write_results(bytes, n, room) ==
    (IF n = Len(bytes) \/ (n > 0 /\ room = 0) THEN {n} ELSE {})
        \cup (IF n = 0 THEN {-1} ELSE {})

\* write returns: the count of Ok(n) is dropped and the loop goes back to
\* recv(); on Err the loop breaks and the Receiver is dropped with the queue.
WritePumpWritten ==
    /\ wr_pc = "write"
    /\ \E n \in write_results(wr_bytes, wr_n, MaxPtyRoom - pty_unread) :
          /\ IF n = -1
             THEN /\ wr_pc' = "done"
                  /\ in_chan' = <<>>
             ELSE /\ wr_pc' = "recv"
                  /\ in_chan' = in_chan
          /\ wr_log' = IF n = -1 THEN wr_log ELSE wr_log \o wr_bytes
    /\ wr_bytes' = <<>>
    /\ wr_n' = 0
    /\ UNCHANGED <<engine_vars, bytes_vars, pump_vars, key_vars, tx_alive, pty_in, pty_unread,
                   pty_ws, sys_log>>

\* recv() returns PtyEvent::Resize: apply_resize, whose results are dropped.
WritePumpResize ==
    /\ wr_pc = "recv"
    /\ in_chan # <<>>
    /\ Head(in_chan).kind = "Resize"
    /\ \E ret \in IoctlResults, pgid \in TcgetpgrpResults, shell \in ShellPgids :
          /\ pty_ws' = apply_resize(pty_ws, Head(in_chan).cols, Head(in_chan).rows,
                                    shell, ret, pgid).ws
          /\ sys_log' = apply_resize(pty_ws, Head(in_chan).cols, Head(in_chan).rows,
                                     shell, ret, pgid).calls
    /\ in_chan' = Tail(in_chan)
    /\ UNCHANGED <<engine_vars, bytes_vars, pump_vars, key_vars, tx_alive, wr_pc, wr_call_vars,
                   pty_in, wr_log>>

\* recv() returns Err: the queue is empty and every Sender is gone.
WritePumpEnd ==
    /\ wr_pc = "recv"
    /\ in_chan = <<>>
    /\ ~tx_alive
    /\ wr_pc' = "done"
    /\ UNCHANGED <<engine_vars, bytes_vars, pump_vars, key_vars, in_chan, tx_alive, wr_call_vars,
                   pty_in, wr_log, pty_ws, sys_log>>

\* The shell reads k of the bytes the PTY holds for it (the slave is its
\* standard input); nothing makes it read.
ShellRead ==
    /\ pty_unread > 0
    /\ \E k \in 1..pty_unread : pty_unread' = pty_unread - k
    /\ UNCHANGED <<engine_vars, bytes_vars, pump_vars, key_vars, in_chan, tx_alive, wr_pc,
                   wr_bytes, wr_n, pty_in, wr_log, pty_ws, sys_log>>

InitPump ==
    /\ InitIo
    /\ grid = new(INIT_COLS, INIT_ROWS)
    /\ steps = 0
    /\ hist = None
    /\ input = <<>>
    /\ fed = <<>>
    /\ pty_out = <<>>
    /\ rd_pc = "read"
    /\ rd_buf = <<>>
    /\ rd_log = <<>>
    /\ rd_left = FALSE
    /\ out_chan = <<>>
    /\ rx_alive = TRUE
    /\ repaints = 0
    /\ ui_pc = "idle"
    /\ needs_repaint = FALSE
    /\ received_data = FALSE

NextPump ==
    \/ ShellWrite
    \/ PumpRead
    \/ PumpReadEnd
    \/ PumpSend
    \/ PumpRepaint
    \/ FrameBegin
    \/ FrameRecv
    \/ FrameEnd
    \/ CloseUI
    \/ WritePumpEnd

SpecPump == InitPump /\ [][NextPump]_vars

\* What the threads and the toolkit guarantee: a read returns when bytes are
\* waiting, the read pump goes on from a read to the send and the repaint
\* request, a requested repaint makes a frame run while the window is open,
\* and a frame that has begun drains the channel and ends; the write pump,
\* waiting in recv(), sees the channel closed. The shell may stay silent
\* for ever and the window may be closed at any time.
\* The drain is stated on the channel: FrameRecv is the one step that takes
\* the head of the channel while a frame drains it.
FairPump ==
    /\ WF_vars(PumpRead)
    /\ WF_vars(PumpSend)
    /\ WF_vars(PumpRepaint)
    /\ WF_vars(repaints > 0 /\ FrameBegin)
    /\ WF_out_chan(ui_pc = "drain" /\ out_chan # <<>> /\ ~grid.panicked
                      /\ out_chan' = Tail(out_chan))
    /\ WF_vars(FrameEnd)
    /\ WF_vars(WritePumpEnd)

SpecPumpLive == InitPump /\ [][NextPump]_vars /\ FairPump

\* ======================================================================
\* The frames of the UI alone, with a silent shell: every window size and
\* every outcome of the system calls of the resize check.
\* ======================================================================
\* The window gives the size the grid is constructed with, or any size up
\* to the largest small grid, less than one cell included.
FrameDims == {<<INIT_COLS, INIT_ROWS>>} \cup ((0..MaxCols) \X (0..MaxRows))

\* A frame in which the ioctl on the PTY master succeeds, whatever the
\* foreground query returns.
FrameBeginAny ==
    \E d \in FrameDims, pgid \in TcgetpgrpResults, shell \in ShellPgids :
        frame_begin(d, 0, pgid, shell)

\* The input events of one frame: none, "a", "ab" and the up arrow, and
\* C with Ctrl held.
FrameEvents ==
    {<<>>,
     <<TextEvent(<<97>>)>>,
     <<TextEvent(<<97, 98>>), KeyEvent(Key("ArrowUp", <<85, 112>>), TRUE, FALSE)>>,
     <<KeyEvent(Key("Letter", <<67>>), TRUE, TRUE)>>}

\* Input is sent in at most this many frames.
MaxFrameInputs == 1

\* The end of a frame with any of the input events, with Ctrl held or not.
FrameEndAny ==
    \E events \in (IF steps < MaxFrameInputs THEN FrameEvents ELSE {<<>>}),
       mods_ctrl \in BOOLEAN, has_changes \in BOOLEAN :
        frame_end(events, mods_ctrl, has_changes)

NextFrame ==
    \/ FrameBeginAny
    \/ FrameEndAny
    \/ CloseUI
    \/ WritePumpInput
    \/ WritePumpAccept
    \/ WritePumpWritten
    \/ WritePumpEnd
    \/ ShellRead

SpecFrame == InitPump /\ [][NextFrame]_vars

\* ======================================================================
\* The write pump (app.rs) fed with PtyEvents through the input channel.
\* ======================================================================
MaxEvents == 2

\* "a", "ab" and the bytes of an arrow key
InputPayloads == {<<97>>, <<97, 98>>, <<27, 91, 65>>}

Input(bytes) == [kind |-> "Input", bytes |-> bytes, cols |-> 0, rows |-> 0]
ResizeEvent(cols, rows) == [kind |-> "Resize", bytes |-> <<>>, cols |-> cols, rows |-> rows]

PtyEvents ==
    {Input(b) : b \in InputPayloads}
        \cup {ResizeEvent(INIT_COLS, INIT_ROWS), ResizeEvent(MaxCols + 1, MaxRows)}

\* tx.send(event): the event is queued while the Receiver exists.
SendEvent ==
    \E ev \in PtyEvents :
        /\ steps < MaxEvents
        /\ tx_alive
        /\ in_chan' = IF rx_input_alive THEN Append(in_chan, ev) ELSE in_chan
        /\ steps' = steps + 1
        /\ UNCHANGED <<grid, hist, bytes_vars, pump_vars, key_vars, tx_alive, wr_pc, wr_call_vars,
                       pty_in, wr_log, pty_ws, sys_log>>

InitWrite ==
    /\ grid = new(INIT_COLS, INIT_ROWS)
    /\ steps = 0
    /\ hist = None
    /\ InitReadIdle
    /\ InitIo

NextWrite ==
    \/ SendEvent
    \/ CloseUI
    \/ WritePumpInput
    \/ WritePumpAccept
    \/ WritePumpWritten
    \/ WritePumpResize
    \/ WritePumpEnd
    \/ ShellRead

SpecWrite == InitWrite /\ [][NextWrite]_vars

\* The write pump thread is scheduled: recv() returns the next event, the
\* PTY takes bytes of a write while it has room, the write returns once
\* every byte is accepted, and recv() sees the channel closed once it is
\* empty and every Sender is gone.  Nothing makes the shell read, so a
\* write may wait for room for ever; no signal and no error need arrive.
FairWrite ==
    /\ WF_vars(WritePumpInput)
    /\ WF_vars(WritePumpAccept)
    /\ WF_vars(wr_n = Len(wr_bytes) /\ WritePumpWritten)
    /\ WF_vars(WritePumpResize)
    /\ WF_vars(WritePumpEnd)

SpecWriteLive == InitWrite /\ [][NextWrite]_vars /\ FairWrite

\* ======================================================================
\* The key map (keymap.rs): the events of one frame appended to one Vec<u8>.
\* ======================================================================
MaxKeyEvents == 2

\* One call append_input_from_event(event, mods, &mut input_bytes).
AppendInput ==
    \E ev \in Events, mods_ctrl \in BOOLEAN :
        /\ steps < MaxKeyEvents
        /\ key_out' = append_input_from_event(ev, mods_ctrl, key_out)
        /\ key_ev' = Some([event |-> ev, mods_ctrl |-> mods_ctrl])
        /\ key_prev' = key_out
        /\ steps' = steps + 1
        /\ UNCHANGED <<grid, hist, bytes_vars, pump_vars, write_vars>>

InitKeys ==
    /\ grid = new(MaxCols, MaxRows)
    /\ InitRest

NextKeys == AppendInput

SpecKeys == InitKeys /\ [][NextKeys]_vars

\* ======================================================================
\* Properties
\* ======================================================================

\* C1: in every state reached by parser actions and resizes the live cursor
\* satisfies 0 <= row < rows and 0 <= col <= cols.
C1_CursorInGrid ==
    /\ 0 <= grid.cursor_row
    /\ grid.cursor_row < grid.rows
    /\ 0 <= grid.cursor_col
    /\ grid.cursor_col <= grid.cols

\* A grid shrunk by a resize while the cursor stood beyond the new size: the
\* cursor is on the last row and the last column of the smaller grid.
C1_Witness ==
    /\ steps = MaxSteps
    /\ grid.cols < MaxCols
    /\ grid.rows < MaxRows
    /\ grid.rows > 1
    /\ grid.cols > 1
    /\ grid.cursor_row = grid.rows - 1
    /\ grid.cursor_col = grid.cols - 1

\* C2: in every reachable state the scroll region of the live buffer and the
\* one stored for the inactive buffer satisfy 0 <= top <= bottom < rows.
C2_ScrollRegionsValid ==
    /\ 0 <= grid.scroll_top
    /\ grid.scroll_top <= grid.scroll_bottom
    /\ grid.scroll_bottom < grid.rows
    /\ 0 <= grid.alt_scroll_top
    /\ grid.alt_scroll_top <= grid.alt_scroll_bottom
    /\ grid.alt_scroll_bottom < grid.rows

\* The alternate screen is live and the primary screen's stored region is a
\* proper sub-region set by DECSTBM.
C2_Witness ==
    /\ grid.in_alt
    /\ grid.alt_scroll_top = 1
    /\ grid.alt_scroll_bottom = 2
    /\ grid.scroll_top = 0
    /\ grid.scroll_bottom = grid.rows - 1

\* C3: every cell whose continuation flag is true has, immediately to its
\* left in the same row, the lead cell of a 2-wide glyph.
C3_ContinuationHasLead ==
    \A idx \in DOMAIN grid.cells :
        grid.cells[idx].cont =>
            /\ idx % grid.cols # 0
            /\ ~grid.cells[idx - 1].cont
            /\ char_width(grid.cells[idx - 1].ch) = 2

\* C4: feeding a byte stream in chunks, split anywhere, leaves the engine
\* (grid, cursor, attributes, parser) in the state that one write_bytes call
\* with the whole stream leaves it in.
C4_ParserResumable == grid = write_bytes(new(MaxCols, MaxRows), fed)

\* CSI 4 m has arrived in chunks of at most MaxChunk bytes, so split inside
\* the sequence, and has been dispatched.
C4_Witness ==
    /\ fed = <<27, 91, 52, 109>>
    /\ MaxChunk < Len(fed)
    /\ grid.cur_underline
    /\ grid.parser.state = "Ground"

\* C5: once SGR 30+N and SGR 1 have both been applied, in either order, a
\* printed cell carries foreground palette index N+8; after SGR 22 a printed
\* cell carries foreground palette index N.
C5_BoldBrightens ==
    \A N \in SgrBoldN :
        /\ fed = SubSeq(SgrBoldInput(N), 1, 10) => grid.cells[0].fg_kind = Ansi(N + 8)
        /\ fed = BoldSgrInput(N) => grid.cells[0].fg_kind = Ansi(N + 8)
        /\ fed = SgrBoldInput(N) => grid.cells[1].fg_kind = Ansi(N)

\* C6: DECSET 1049 at cursor (r, c), then actions that neither switch screens
\* nor reset, with no resize, then DECRST 1049: the cursor is at (r, c).
C6_CursorRestored ==
    [][(/\ hist # None
        /\ hist[1].live
        /\ hist[1].via1049
        /\ ~hist[1].dirty
        /\ grid' = exit_alternate(grid, TRUE))
           => cursor_pos(grid') = hist[1].cursor]_vars

\* DECSET 1049 away from the home position, output on the alternate screen,
\* DECRST 1049.
C6_Witness ==
    /\ hist # None
    /\ ~hist[1].live
    /\ hist[1].via1049
    /\ ~hist[1].dirty
    /\ hist[1].cursor # <<0, 0>>
    /\ grid.saved_cursor_1049 = None
    /\ cursor_pos(grid) = hist[1].cursor
    /\ \E idx \in DOMAIN grid.alt_cells : grid.alt_cells[idx].ch = 97

\* C7: while the alternate screen is live and no resize has happened, the
\* primary cells, held in the inactive slot, are those present at entry; and
\* after DECRST 47, 1047 or 1049 the live cells are those present at entry.
C7_PrimaryPreserved ==
    [][/\ (hist' # None /\ hist'[1].live /\ ~hist'[1].dirty)
              => grid'.alt_cells = hist'[1].cells
       /\ (/\ hist # None
           /\ hist[1].live
           /\ ~hist[1].dirty
           /\ \E restore \in BOOLEAN : grid' = exit_alternate(grid, restore))
              => grid'.cells = hist[1].cells]_vars

\* A primary screen with text on it, text written to the alternate screen,
\* and the alternate screen left again.
C7_Witness ==
    /\ hist # None
    /\ ~hist[1].live
    /\ ~hist[1].dirty
    /\ \E idx \in DOMAIN hist[1].cells : hist[1].cells[idx].ch = 97
    /\ grid.cells = hist[1].cells
    /\ \E idx \in DOMAIN grid.alt_cells : grid.alt_cells[idx].ch = 97

\* C8: printing a width-1 character at column cols-1 leaves the cursor on the
\* same row at col = cols and scrolls nothing: the rows other than the
\* cursor's are unchanged.
C8_PendingWrap ==
    [][(/\ steps' = steps + 1
        /\ grid.cursor_col = grid.cols - 1
        /\ grid' = print(grid, 97))
           => /\ grid'.cursor_row = grid.cursor_row
              /\ grid'.cursor_col = grid.cols
              /\ \A idx \in DOMAIN grid.cells :
                     idx \div grid.cols # grid.cursor_row
                         => grid'.cells[idx] = grid.cells[idx]]_vars

\* C9: no action handler indexes or slices outside the live buffer, and no
\* subtraction underflows: no handler panics.
C9_NoPanic == ~grid.panicked

\* A handler has blanked the last cell of a line with a coloured background
\* (an erase or an insert of characters up to the end of the line).
C9_Witness ==
    /\ ~grid.panicked
    /\ grid.cols > 1
    /\ grid.cursor_col = grid.cols - 1
    /\ grid.cursor_row = grid.rows - 1
    /\ grid.cells[cell_index(grid, grid.cursor_row, grid.cursor_col)].bg_kind = Ansi(2)
    /\ grid.cells[cell_index(grid, grid.cursor_row, grid.cursor_col)].ch = SPACE

\* The bytes read from the PTY master and not yet passed to write_bytes are
\* the chunks queued in the channel and the chunk the pump holds between
\* its read and its send, in order.
none_lost == fed \o Flatten(out_chan) \o (IF rd_pc = "send" THEN rd_buf ELSE <<>>) = rd_log

\* C10, as stated: under every interleaving of the read pump and the frames
\* the bytes passed to write_bytes are always a prefix of the bytes read from
\* the PTY master, no byte is lost, duplicated or reordered, and the chunks
\* queued when the read pump stops are still delivered.
C10_Fifo ==
    /\ [](IsPrefix(fed, rd_log) /\ none_lost)
    /\ (rd_pc = "done") ~> (fed = rd_log)

\* C10, as the code has it: the bytes passed to write_bytes are always a
\* prefix of the bytes read, none duplicated or reordered; while the window
\* is open none is lost, and the chunks queued when the read pump stops are
\* delivered by the frames unless the window is closed first.
C10_FifoWhileOpen ==
    /\ [](IsPrefix(fed, rd_log) /\ (rx_alive => none_lost))
    /\ (rd_pc = "done") ~> (fed = rd_log \/ ~rx_alive)

\* The pump stopped with chunks queued, and a frame of the open window has
\* since passed them to write_bytes: every byte read has been delivered.
C10_Witness ==
    /\ rd_pc = "done"
    /\ rx_alive
    /\ rd_left
    /\ out_chan = <<>>
    /\ ui_pc = "idle"
    /\ fed = rd_log

\* C11: the bytes the PTY master has accepted from the write pump are the
\* concatenation, in order, of the payloads of the Input events the pump has
\* processed (their write has returned Ok, whatever the count), followed
\* by the part accepted so far of the write in progress.
C11_WriteLossless == pty_in = wr_log \o SubSeq(wr_bytes, 1, wr_n)

\* C12: after RIS (ESC c), from the primary or from the alternate screen,
\* every cell of the live buffer and every cell of the inactive buffer is a
\* blank cell, so that entering the alternate screen without clear shows
\* nothing written before the reset.
C12_ResetBlanksBoth ==
    [][grid' = esc_dispatch(grid, <<>>, 99)
           => /\ \A idx \in DOMAIN grid'.cells : grid'.cells[idx] = Cell_default
              /\ \A idx \in DOMAIN grid'.alt_cells :
                     grid'.alt_cells[idx] = Cell_default]_vars

\* The state RIS (ESC c) leaves when issued in state g.
after_ris(g) == esc_dispatch(g, <<>>, 99)

\* C13: after RIS from any reachable state the primary screen is live, the
\* cursor is at (0,0), the SGR state is the default, no palette entry is
\* overridden, the default colours have their initial values, G0 and G1 are
\* Ascii with G0 selected, the live scroll region is the full screen and the
\* saved cursor is (0,0).
C13_ResetState ==
    LET h == after_ris(grid)
    IN  /\ ~h.in_alt
        /\ cursor_pos(h) = <<0, 0>>
        /\ h.cur_fg_kind = ColorDefault
        /\ h.cur_bg_kind = ColorDefault
        /\ ~h.cur_bold
        /\ ~h.cur_underline
        /\ ~h.cur_inverse
        /\ h.palette = <<>>
        /\ h.default_fg = DEFAULT_FG
        /\ h.default_bg = DEFAULT_BG
        /\ h.cursor_color = None
        /\ h.g0 = "Ascii"
        /\ h.g1 = "Ascii"
        /\ ~h.use_g1
        /\ h.scroll_top = 0
        /\ h.scroll_bottom = grid.rows - 1
        /\ h.saved_cursor = <<0, 0>>

\* RIS issued on the alternate screen after SGR 31 was set there: the state
\* is the one reset leaves, and the step has left the alternate screen.
C13_Witness ==
    /\ steps = 3
    /\ hist # None
    /\ ~hist[1].live
    /\ grid = reset(apply_sgr(enter_alternate(new(MaxCols, MaxRows), FALSE, FALSE), <<31>>))

\* The state CSI m J leaves when issued in state g.
after_ed(g, m) == csi_dispatch(g, <<m>>, <<>>, FALSE, 74)

\* C14: CSI J with mode 0 blanks exactly the cells from the cursor to the
\* end of the screen, with mode 1 exactly the cells from the start of the
\* screen to the cursor, with mode 2 or 3 all cells; each erased cell takes
\* the current background attribute (the background the SGR state holds)
\* and every other cell is unchanged.
C14_EraseDisplay ==
    \A m \in 0..3 :
       LET h == after_ed(grid, m)
           cur == cell_index(grid, grid.cursor_row, grid.cursor_col)
           bg == grid.cur_bg_kind
       IN  \A idx \in DOMAIN grid.cells :
              IF \/ m = 0 /\ idx >= cur
                 \/ m = 1 /\ idx <= cur
                 \/ m \in {2, 3}
              THEN /\ h.cells[idx].ch = SPACE
                   /\ ~h.cells[idx].cont
                   /\ h.cells[idx].bg_kind = bg
              ELSE h.cells[idx] = grid.cells[idx]

\* C15: resize(c, r) with max(c,1) = cols and max(r,1) = rows returns false
\* and leaves the whole engine state unchanged; in every other case it
\* returns true.
C15_ResizeNoop ==
    \A c \in 0..MaxCols, r \in 0..MaxRows :
        IF Max(c, 1) = grid.cols /\ Max(r, 1) = grid.rows
        THEN ~resize_returns(grid, c, r) /\ resize(grid, c, r) = grid
        ELSE resize_returns(grid, c, r)

\* 'a' printed on the alternate screen over a primary screen, then resize to
\* the size the grid already has: two buffers with content, nothing changed.
C15_Witness ==
    /\ steps = 3
    /\ grid.in_alt
    /\ hist # None
    /\ ~hist[1].dirty
    /\ LET g == print(enter_alternate(new(MaxCols, MaxRows), FALSE, FALSE), 97)
       IN  grid = resize(g, g.cols, g.rows)

\* C16: after a resize that changes the dimensions the scroll regions of the
\* live and of the inactive buffer are [0, new_rows - 1], and the live cursor
\* and the inactive buffer's cursor are within the new bounds (row at most
\* new_rows - 1, column at most new_cols), whichever screen is live.
C16_ResizeClamps ==
    \A c \in 0..MaxCols, r \in 0..MaxRows :
        resize_returns(grid, c, r)
           => LET h == resize(grid, c, r)
              IN  /\ h.cols = Max(c, 1)
                  /\ h.rows = Max(r, 1)
                  /\ h.scroll_top = 0
                  /\ h.scroll_bottom = h.rows - 1
                  /\ h.alt_scroll_top = 0
                  /\ h.alt_scroll_bottom = h.rows - 1
                  /\ h.cursor_row <= h.rows - 1
                  /\ h.cursor_col <= h.cols
                  /\ h.alt_cursor_row <= h.rows - 1
                  /\ h.alt_cursor_col <= h.cols

\* The alternate screen entered with the primary cursor on the last row,
\* then a resize to one row less: the resize happened while the alternate
\* screen was live, and the inactive cursor and both regions follow it.
C16_Witness ==
    /\ grid.in_alt
    /\ hist # None
    /\ hist[1].dirty
    /\ hist[1].cursor[1] = MaxRows - 1
    /\ grid.rows = MaxRows - 1
    /\ grid.alt_cursor_row = grid.rows - 1
    /\ grid.scroll_bottom = grid.rows - 1
    /\ grid.alt_scroll_bottom = grid.rows - 1

\* C17: for a palette index i and a valid colour spec, OSC 4;i;spec makes
\* index i resolve to the colour of the spec; OSC 104;i or OSC 104 after it
\* makes index i resolve to the built-in table colour again, and OSC 104;i
\* leaves the overrides of the other indices as they were.
C17_PaletteRoundTrip ==
    \A i \in PaletteIndices, s \in ColourSpecs :
        LET h == osc_dispatch(grid, <<<<52>>, decimal(i), s[1]>>)
            k == osc_dispatch(h, <<<<49, 48, 52>>, decimal(i)>>)
            a == osc_dispatch(h, <<<<49, 48, 52>>>>)
        IN  /\ resolve_color(h, Xterm(i), TRUE) = s[2]
            /\ i < 16 => resolve_color(h, Ansi(i), TRUE) = s[2]
            /\ \A j \in (DOMAIN grid.palette) \ {i} :
                  j \in DOMAIN h.palette /\ h.palette[j] = grid.palette[j]
            /\ resolve_color(k, Xterm(i), TRUE) = xterm_256_color(i)
            /\ i < 16 => resolve_color(k, Ansi(i), TRUE) = ansi_16_color(i)
            /\ \A j \in (DOMAIN h.palette) \ {i} :
                  j \in DOMAIN k.palette /\ k.palette[j] = h.palette[j]
            /\ resolve_color(a, Xterm(i), TRUE) = xterm_256_color(i)

\* OSC 4;1;#ff0000 and OSC 4;255;... have acted: index 1 is overridden and
\* resolves to red until OSC 104;1, and index 255 is overridden too.
C17_Witness ==
    /\ steps = 2
    /\ DOMAIN grid.palette = {1, 255}
    /\ resolve_color(grid, Ansi(1), TRUE) = from_rgb(255, 0, 0)
    /\ resolve_color(osc_dispatch(grid, <<<<49, 48, 52>>, <<49>>>>), Ansi(1), TRUE)
          = from_rgb(128, 0, 0)

\* C19: on LF (0x0A), if the cursor row is scroll_bottom the rows of the
\* scroll region move up by one line, the bottom row of the region is blank,
\* the rows outside the region and the cursor row are unchanged; otherwise
\* the cursor row increases by 1 and no cell changes; the column is unchanged
\* in both cases.
C19_LineFeed ==
    LET h == execute(grid, 10)
    IN  /\ h.cursor_col = grid.cursor_col
        /\ IF grid.cursor_row = grid.scroll_bottom
           THEN /\ h.cursor_row = grid.cursor_row
                /\ \A row \in 0..(grid.rows - 1), col \in 0..(grid.cols - 1) :
                      h.cells[cell_index(grid, row, col)] =
                         IF row < grid.scroll_top \/ row > grid.scroll_bottom
                         THEN grid.cells[cell_index(grid, row, col)]
                         ELSE IF row = grid.scroll_bottom THEN blank_cell(grid)
                         ELSE grid.cells[cell_index(grid, row + 1, col)]
           ELSE /\ h.cursor_row = grid.cursor_row + 1
                /\ h.cells = grid.cells

\* C20: VT (0x0B) and FF (0x0C) leave the cursor and the grid in the state
\* LF (0x0A) leaves them in.
C20_VtFfAsLf ==
    /\ execute(grid, 11) = execute(grid, 10)
    /\ execute(grid, 12) = execute(grid, 10)

\* C18: a press of a letter key with Ctrl held appends the single byte
\* letter - '@'; a Text event while Ctrl is held appends nothing; a Text event
\* without Ctrl appends the UTF-8 bytes of the text.
C18_CtrlAndText ==
    key_ev # None
       => /\ (/\ key_ev[1].event.type = "Key"
              /\ key_ev[1].event.pressed
              /\ key_ev[1].event.ctrl
              /\ key_ev[1].event.key.id = "Letter")
                => key_out = Append(key_prev, key_ev[1].event.key.name[1] - 64)
          /\ (key_ev[1].event.type = "Text" /\ key_ev[1].mods_ctrl)
                => key_out = key_prev
          /\ (key_ev[1].event.type = "Text" /\ ~key_ev[1].mods_ctrl)
                => \E t \in Texts :
                      /\ t[1] = key_ev[1].event.text
                      /\ key_out = key_prev \o t[2]

\* Ctrl+C pressed, then the Text event of the same press delivered while Ctrl
\* is held: the input is the single byte 0x03.
C18_Witness ==
    /\ key_ev # None
    /\ key_ev[1].event.type = "Text"
    /\ key_ev[1].mods_ctrl
    /\ key_prev = <<3>>
    /\ key_out = <<3>>

\* ------------------------------------------------ line moves, as claimed
\* The cell a blanked line holds: a space, not a continuation, with the
\* background of the current cell attributes of g.
is_blank_in(g, cell) ==
    /\ cell.ch = SPACE
    /\ ~cell.cont
    /\ cell.bg_kind = current_cell_attrs(g)[2]

\* h is g with the rows top..bottom moved down by k lines: row r holds the
\* former row r - k, the k rows at the top are blank, every other row is
\* as it was.
rows_moved_down(g, h, top, bottom, k) ==
    /\ DOMAIN h.cells = DOMAIN g.cells
    /\ \A idx \in DOMAIN g.cells :
          LET r == idx \div g.cols
          IN  IF r < top \/ r > bottom THEN h.cells[idx] = g.cells[idx]
              ELSE IF r - k >= top THEN h.cells[idx] = g.cells[idx - (k * g.cols)]
              ELSE is_blank_in(g, h.cells[idx])

\* h is g with the rows top..bottom moved up by k lines: row r holds the
\* former row r + k, the k rows at the bottom are blank, every other row is
\* as it was.
rows_moved_up(g, h, top, bottom, k) ==
    /\ DOMAIN h.cells = DOMAIN g.cells
    /\ \A idx \in DOMAIN g.cells :
          LET r == idx \div g.cols
          IN  IF r < top \/ r > bottom THEN h.cells[idx] = g.cells[idx]
              ELSE IF r + k <= bottom THEN h.cells[idx] = g.cells[idx + (k * g.cols)]
              ELSE is_blank_in(g, h.cells[idx])

\* C21: on ESC M (reverse index), for every cursor row and every scroll
\* region: when the cursor is on the top margin the region moves down by one
\* line and the cursor stays; otherwise the cursor moves up one row (not
\* above row 0) and no cell changes.
C21_ReverseIndex ==
    LET h == esc_dispatch(grid, <<>>, 77)
    IN  IF grid.cursor_row = grid.scroll_top
        THEN /\ cursor_pos(h) = cursor_pos(grid)
             /\ rows_moved_down(grid, h, grid.scroll_top, grid.scroll_bottom, 1)
        ELSE /\ h.cursor_row = saturating_sub(grid.cursor_row, 1)
             /\ h.cells = grid.cells

\* C22: HT sets the cursor column to min(((col / 8) + 1) * 8, cols - 1) and
\* leaves the cursor row unchanged, for every starting column and every
\* grid width.
C22_Tab ==
    LET h == execute(grid, 9)
    IN  /\ h.cursor_col = Min(((grid.cursor_col \div TAB_SIZE) + 1) * TAB_SIZE, grid.cols - 1)
        /\ h.cursor_row = grid.cursor_row

\* C23: CSI t;b r with 1 <= t < b, where b beyond the screen counts as the
\* last row, sets the scroll region to [t-1, b-1] and moves the cursor to
\* the home position (0,0).
C23_SetScrollRegion ==
    \A t \in 1..grid.rows, b \in 1..(grid.rows + 1) :
        t < Min(b, grid.rows)
           => LET h == csi_dispatch(grid, <<t, b>>, <<>>, FALSE, 114)
              IN  /\ h.scroll_top = t - 1
                  /\ h.scroll_bottom = Min(b, grid.rows) - 1
                  /\ cursor_pos(h) = <<0, 0>>

\* C24: for every grid height, every scroll region [top, bottom] and every
\* n >= 1, CSI n S moves the rows of the region up by k = min(n, bottom-top+1)
\* lines: row r in [top, bottom-k] holds the former row r+k and the rows
\* bottom-k+1..bottom are blank in the current background, also when the
\* region is a single row.
C24_ScrollUp ==
    \A n \in 1..(MaxRows + 1) :
        LET h == csi_dispatch(grid, <<n>>, <<>>, FALSE, 83)
            k == Min(n, (grid.scroll_bottom - grid.scroll_top) + 1)
        IN  rows_moved_up(grid, h, grid.scroll_top, grid.scroll_bottom, k)

\* C25: with the cursor on row r inside the scroll region [top, bottom],
\* CSI n L moves the rows [r, bottom] down by min(n, bottom-r+1) lines and
\* CSI n M moves them up by as many, and nothing else changes; with the
\* cursor outside the scroll region both change nothing.
C25_InsertDeleteLines ==
    \A n \in 1..(MaxRows + 1) :
        LET il == csi_dispatch(grid, <<n>>, <<>>, FALSE, 76)
            dl == csi_dispatch(grid, <<n>>, <<>>, FALSE, 77)
            r == grid.cursor_row
            k == Min(n, (grid.scroll_bottom - r) + 1)
        IN  IF r >= grid.scroll_top /\ r <= grid.scroll_bottom
            THEN /\ rows_moved_down(grid, il, r, grid.scroll_bottom, k)
                 /\ rows_moved_up(grid, dl, r, grid.scroll_bottom, k)
                 /\ [il EXCEPT !.cells = grid.cells] = grid
                 /\ [dl EXCEPT !.cells = grid.cells] = grid
            ELSE il = grid /\ dl = grid

\* 'a' printed on row 0 of the largest grid, the cursor moved to row 1 by LF,
\* then CSI 2 L: row 0 still holds 'a' and the cursor is still on row 1.
C25_Witness ==
    /\ steps = 3
    /\ grid = insert_lines(execute(print(new(MaxCols, MaxRows), 97), 10), 2)
    /\ grid.cells[0].ch = 97
    /\ cursor_pos(grid) = <<1, 1>>

\* C26: for every grid width and every cursor position, printing a 2-wide
\* glyph never writes its lead cell at column cols-1: the lead cell is
\* followed by its continuation cell, and when fewer than two columns were
\* left the lead cell is at column 0.
C26_WideLeadPlacement ==
    LET h == print(grid, 20013)
    IN  \A idx \in DOMAIN h.cells :
           (h.cells[idx].ch = 20013 /\ h.cells[idx] # grid.cells[idx])
              => /\ idx % grid.cols # grid.cols - 1
                 /\ (idx + 1) \in DOMAIN h.cells
                 /\ h.cells[idx + 1].cont
                 /\ (grid.cursor_col + 2 > grid.cols => idx % grid.cols = 0)

\* C27: DECSET 47, 1047 or 1049 received while the alternate screen is live
\* changes nothing, and DECRST 47, 1047 or 1049 received while the primary
\* screen is live changes nothing.
C27_AltModeIdempotent ==
    \A m \in {47, 1047, 1049} :
        IF grid.in_alt
        THEN csi_dispatch(grid, <<m>>, <<63>>, FALSE, 104) = grid
        ELSE csi_dispatch(grid, <<m>>, <<63>>, FALSE, 108) = grid

\* DECSET 47, 'a' and the cursor moved to (1,1) on the alternate screen,
\* then a second DECSET: the alternate screen still shows 'a', the cursor
\* has not moved and no DECSET 1049 cursor is recorded.
C27_Witness ==
    /\ steps = 4
    /\ grid.in_alt
    /\ grid.saved_cursor_1049 = None
    /\ hist # None
    /\ ~hist[1].via1049
    /\ grid = csi_dispatch(print(enter_alternate(new(MaxCols, MaxRows), FALSE, FALSE), 97),
                           <<2, 2>>, <<>>, FALSE, 72)

\* ESC 7 / CSI s and ESC 8 / CSI u issued in state g.
save_esc(g) == esc_dispatch(g, <<>>, 55)

save_csi(g) == csi_dispatch(g, <<0>>, <<>>, FALSE, 115)

restore_esc(g) == esc_dispatch(g, <<>>, 56)

restore_csi(g) == csi_dispatch(g, <<0>>, <<>>, FALSE, 117)

\* The screen switch a DECSET (in the primary screen) or a DECRST (in the
\* alternate screen) of mode m makes in state g.
switch_screen(g, m) ==
    csi_dispatch(g, <<m>>, <<63>>, FALSE, IF g.in_alt THEN 108 ELSE 104)

\* In every state: the two save sequences do the same, the two restore
\* sequences do the same, a restore after a save yields the saved position,
\* and a save on the live buffer does not change the position a restore
\* yields on the other buffer after the switch.
saved_cursor_per_buffer ==
    /\ save_esc(grid) = save_csi(grid)
    /\ restore_esc(grid) = restore_csi(grid)
    /\ save_esc(grid).saved_cursor = cursor_pos(grid)
    /\ cursor_pos(restore_esc(grid)) =
           <<Min(grid.saved_cursor[1], grid.rows - 1), Min(grid.saved_cursor[2], grid.cols - 1)>>
    /\ \A m \in {47, 1047, 1049} :
           cursor_pos(restore_esc(switch_screen(save_esc(grid), m)))
               = cursor_pos(restore_esc(switch_screen(grid, m)))

\* A step that neither switches the screen nor resets the terminal leaves
\* the saved cursor of the inactive buffer alone, and changes the saved
\* cursor of the live buffer only by saving the cursor position.
saved_cursor_kept ==
    (grid'.in_alt = grid.in_alt /\ grid' # reset(grid))
       => /\ grid'.alt_saved_cursor = grid.alt_saved_cursor
          /\ \/ grid'.saved_cursor = grid.saved_cursor
             \/ grid' = save_esc(grid)

\* C28: each buffer has its own saved cursor, shared by ESC 7/8 and CSI s/u:
\* a position saved by either save sequence is the one either restore
\* sequence restores on the same buffer, and a save made on one screen does
\* not change the position a restore yields on the other.
C28_SavedCursorPerBuffer == [](saved_cursor_per_buffer) /\ [][saved_cursor_kept]_vars

\* The cursor saved at (1,1) on the alternate screen, the alternate screen
\* left, then a restore on the primary screen: the cursor is at the primary
\* screen's saved position (0,0), the alternate screen keeps (1,1).
C28_Witness ==
    /\ steps = 5
    /\ ~grid.in_alt
    /\ grid.alt_saved_cursor = <<1, 1>>
    /\ grid.saved_cursor = <<0, 0>>
    /\ cursor_pos(grid) = <<0, 0>>
    /\ hist = None

\* In every state: a printed character goes through the DEC special table
\* exactly when the selected slot (G1 after SO, G0 after SI) is designated
\* DecSpecial; designating the slot that is not selected does not change
\* what a print writes; SO selects G1, SI selects G0 and RIS selects G0.
charset_of_selected_slot ==
    /\ \A c \in {97, 113} :
          /\ print(grid, c) =
                put_char(grid, IF (IF grid.use_g1 THEN grid.g1 ELSE grid.g0) = "DecSpecial"
                               THEN map_dec_special(c)
                               ELSE c)
          /\ \A d \in {48, 66} :
                print(esc_dispatch(grid, <<IF grid.use_g1 THEN 40 ELSE 41>>, d), c).cells
                    = print(grid, c).cells
    /\ execute(grid, 14).use_g1
    /\ ~execute(grid, 15).use_g1
    /\ ~esc_dispatch(grid, <<>>, 99).use_g1

\* The selection changes only by SO, SI and RIS.
selection_kept ==
    grid'.use_g1 # grid.use_g1
       => \/ grid' = execute(grid, 14)
          \/ grid' = execute(grid, 15)
          \/ grid' = esc_dispatch(grid, <<>>, 99)

\* C29: a printed character is translated through the DEC special table if
\* and only if the slot selected by the most recent SI/SO (G0 initially and
\* after RIS) is designated DecSpecial when it is printed; designating the
\* slot that is not selected never changes what is printed.
C29_CharsetSelection ==
    /\ ~grid.use_g1
    /\ [](charset_of_selected_slot)
    /\ [][selection_kept]_vars

\* SO, ESC ) 0, then 'q': G1 is selected and designated DecSpecial, and the
\* cell holds the line-drawing character U+2500.
C29_Witness ==
    /\ steps = 3
    /\ grid.use_g1
    /\ grid.g1 = "DecSpecial"
    /\ grid.g0 = "Ascii"
    /\ grid.cells[0].ch = 9472
    /\ cursor_pos(grid) = <<0, 1>>

\* C30: after a resize that changes the dimensions, every cell of the live
\* buffer and every cell of the inactive buffer is blank and carries the
\* background that is current in the SGR state at the time of the resize.
C30_ResizeBlankBackground ==
    \A c \in 0..MaxCols, r \in 0..MaxRows :
        resize_returns(grid, c, r)
           => LET h == resize(grid, c, r)
              IN  /\ \A idx \in DOMAIN h.cells : is_blank_in(grid, h.cells[idx])
                  /\ \A idx \in DOMAIN h.alt_cells : is_blank_in(grid, h.alt_cells[idx])

\* ------------------------------------------------ buffers, colours, pumps and frames

\* C34: the grid always has at least one row and one column (construction
\* and resize turn a zero dimension into 1), the live buffer holds exactly
\* rows * cols cells, the inactive buffer holds none or rows * cols, and
\* both hold rows * cols while the alternate screen is live.
C34_BufferSizes ==
    /\ grid.rows >= 1
    /\ grid.cols >= 1
    /\ len(grid.cells) = grid.rows * grid.cols
    /\ len(grid.alt_cells) \in {0, grid.rows * grid.cols}
    /\ grid.in_alt => len(grid.alt_cells) = grid.rows * grid.cols
    /\ \A c \in 0..MaxCols, r \in 0..MaxRows :
          /\ new(c, r).cols = Max(c, 1)
          /\ new(c, r).rows = Max(r, 1)
          /\ len(new(c, r).cells) = Max(c, 1) * Max(r, 1)
          /\ resize(grid, c, r).cols = Max(c, 1)
          /\ resize(grid, c, r).rows = Max(r, 1)

\* DECSET 47 on the largest grid, then a resize to 0 x 0: the alternate
\* screen is live on a grid of one cell and both buffers hold that cell.
C34_Witness ==
    /\ steps = 2
    /\ grid.in_alt
    /\ grid.cols = 1
    /\ grid.rows = 1
    /\ len(grid.cells) = 1
    /\ len(grid.alt_cells) = 1
    /\ hist # None
    /\ hist[1].dirty

\* The SGR state: the colour kinds and the bold, underline and reverse flags.
sgr_state(g) ==
    <<g.cur_fg_kind, g.cur_bg_kind, g.cur_bold, g.cur_underline, g.cur_inverse>>

\* SGR parameter lists in which 38 or 48 is not followed by a complete
\* 5;N or 2;R;G;B group.
IncompleteSgr ==
    {<<38>>, <<48>>, <<38, 5>>, <<48, 5>>, <<38, 2>>, <<48, 2, 7>>, <<38, 2, 4, 7>>}

\* C35: an SGR sequence in which 38 or 48 is not followed by a complete
\* 5;N or 2;R;G;B group leaves the attribute state as it was: neither the
\* 38/48 nor the parameters after it (taken as stand-alone codes such as 4
\* or 7) change it.
C35_IncompleteExtendedColour ==
    \A p \in IncompleteSgr :
        sgr_state(csi_dispatch(grid, p, <<>>, FALSE, 109)) = sgr_state(grid)

\* TerminalGrid::resolve_cell_colors: the foreground and background colour
\* a cell is drawn with.
resolve_cell_colors(g, cell) ==
    <<resolve_color(g, cell.fg_kind, TRUE), resolve_color(g, cell.bg_kind, FALSE)>>

\* The colours of the cell that printing 'a' at the cursor of g writes.
printed_colors(g) ==
    LET h == print(g, 97)
    IN  resolve_cell_colors(h, h.cells[cell_index(g, g.cursor_row, g.cursor_col)])

\* C36: with reverse video on, a printed cell resolves to the foreground
\* colour that is the background colour, and to the background colour that
\* is the foreground colour, which the same attributes resolve to with
\* reverse video off, also when either colour or both are Default.
C36_ReverseVideo ==
    grid.cur_inverse
       => LET on == printed_colors(grid)
              off == printed_colors([grid EXCEPT !.cur_inverse = FALSE])
          IN  on = <<off[2], off[1]>>

\* The cursor stays where it is across the CSI sequence with final byte f
\* and the single parameter p.
cursor_kept_by(g, f, p) ==
    cursor_pos(csi_dispatch(g, <<p>>, <<>>, FALSE, f)) = cursor_pos(g)

\* C37: ED (CSI J, modes 0 to 3), EL (CSI K, every mode) and ECH (CSI X,
\* every count) erase cells and never change the cursor position.
C37_EraseKeepsCursor ==
    /\ \A m \in 0..3 : cursor_kept_by(grid, 74, m)
    /\ \A m \in 0..3 : cursor_kept_by(grid, 75, m)
    /\ \A n \in 0..(MaxCols + 1) : cursor_kept_by(grid, 88, n)

\* C38: when the alternate screen was entered with DECSET 47 or 1047 and is
\* left with DECRST 1049, with no resize in between, the cursor after the
\* exit is the position the primary screen had at that entry: a position
\* saved by an earlier DECSET 1049, whose screen was left with DECRST 47 or
\* 1047, is not restored.
C38_StaleSavedCursor ==
    (grid.in_alt /\ hist # None /\ hist[1].live /\ ~hist[1].via1049 /\ ~hist[1].dirty)
       => cursor_pos(csi_dispatch(grid, <<1049>>, <<63>>, FALSE, 108)) = hist[1].cursor

\* Every cell of every row outside the scroll region of g is in h what it
\* is in g.
outside_region_kept(g, h) ==
    /\ h.cols = g.cols
    /\ h.rows = g.rows
    /\ \A row \in 0..(g.rows - 1), col \in 0..(g.cols - 1) :
          (row < g.scroll_top \/ row > g.scroll_bottom)
             => h.cells[cell_index(g, row, col)] = g.cells[cell_index(g, row, col)]

\* C39: LF on the bottom margin, RI (ESC M) on the top margin, and CSI S,
\* T, L and M with every count never modify a cell of a row outside
\* [scroll_top, scroll_bottom], for every region.
C39_ScrollStaysInRegion ==
    /\ grid.cursor_row = grid.scroll_bottom => outside_region_kept(grid, execute(grid, 10))
    /\ grid.cursor_row = grid.scroll_top
          => outside_region_kept(grid, esc_dispatch(grid, <<>>, 77))
    /\ \A f \in {83, 84, 76, 77}, n \in 0..(MaxRows + 1) :
          outside_region_kept(grid, csi_dispatch(grid, <<n>>, <<>>, FALSE, f))

\* 'a' on row 0, DECSTBM 2;3, 'b' on row 1: the region is rows 1..2 of the
\* largest grid, and CSI S scrolls 'b' out of it while 'a' above it stays.
C39_Witness ==
    /\ steps = 3
    /\ grid.rows = MaxRows
    /\ grid.cols = MaxCols
    /\ grid.scroll_top = 1
    /\ grid.scroll_bottom = 2
    /\ grid.cells[0].ch = 97
    /\ grid.cells[MaxCols].ch = 98
    /\ csi_dispatch(grid, <<1>>, <<>>, FALSE, 83).cells[MaxCols].ch = SPACE
    /\ csi_dispatch(grid, <<1>>, <<>>, FALSE, 83).cells[0].ch = 97

\* The write pump takes a Resize event from the input channel.
takes_resize_event ==
    /\ wr_pc = "recv"
    /\ in_chan # <<>>
    /\ Head(in_chan).kind = "Resize"
    /\ in_chan' = Tail(in_chan)

\* The system calls of one apply_resize for the event ev, as claimed: the
\* ioctl with the event's rows and columns, the foreground query, then one
\* SIGWINCH to the group the query returned if positive, else to the shell's.
resize_calls_for(ev, calls) ==
    /\ Len(calls) = 3
    /\ calls[1] = <<"TIOCSWINSZ", ev.rows, ev.cols>>
    /\ Len(calls[2]) = 2
    /\ calls[2][1] = "tcgetpgrp"
    /\ Len(calls[3]) = 3
    /\ calls[3][1] = "killpg"
    /\ calls[3][3] = "SIGWINCH"
    /\ IF calls[2][2] > 0 THEN calls[3][2] = calls[2][2] ELSE calls[3][2] \in ShellPgids

\* C31: for each Resize event the write pump issues TIOCSWINSZ with the
\* event's rows and columns before it sends SIGWINCH, sends exactly one
\* SIGWINCH, to the foreground process group when the query returns a
\* positive id and to the spawned shell's group otherwise; a failure of
\* these calls does not stop the pump, and no other step of the pump makes
\* these calls.
C31_ResizeSequence ==
    [][/\ takes_resize_event
           => /\ resize_calls_for(Head(in_chan), sys_log')
              /\ pty_ws' \in {pty_ws, Some(<<Head(in_chan).cols, Head(in_chan).rows>>)}
              /\ wr_pc' = "recv"
       /\ ~takes_resize_event => (sys_log' = sys_log /\ pty_ws' = pty_ws)]_vars

\* Two Resize events taken: for the second, 80 x 24, the ioctl failed (the
\* PTY keeps the size of the first) and the foreground query failed, so the
\* signal went to the shell's group; the pump is still receiving.
C31_Witness ==
    /\ steps = 2
    /\ wr_pc = "recv"
    /\ in_chan = <<>>
    /\ pty_ws = Some(<<MaxCols + 1, MaxRows>>)
    /\ \E shell \in ShellPgids :
          sys_log = <<<<"TIOCSWINSZ", INIT_ROWS, INIT_COLS>>,
                      <<"tcgetpgrp", -1>>,
                      <<"killpg", shell, "SIGWINCH">>>>

\* Once the Receiver of the output channel is dropped, the read pump
\* eventually terminates.
read_pump_stops == (~rx_alive) ~> (rd_pc = "done")

\* Once every Sender of the input channel is dropped, the write pump
\* eventually terminates, with no event left in the queue.
write_pump_stops == (~tx_alive) ~> (wr_pc = "done" /\ in_chan = <<>>)

\* C32: once the receiver of the output channel is dropped the read pump
\* eventually terminates, and once every sender of the input channel is
\* dropped the write pump eventually terminates after the queued events.
C32_PumpsTerminate == read_pump_stops /\ write_pump_stops

\* Each step of the read pump from a non-empty read on: the chunk is placed
\* in the channel first (while the Receiver lives), then exactly one repaint
\* is requested, and no other step of the pump requests one (a frame may
\* request a repaint of its own at its end).
repaint_once_after_send ==
    /\ (rd_pc = "send" /\ rd_pc' # "send" /\ rx_alive)
          => /\ out_chan' = Append(out_chan, rd_buf)
             /\ rd_pc' = "repaint"
             /\ repaints' = repaints
    /\ (rd_pc = "repaint" /\ rd_pc' # "repaint")
          => /\ rd_pc' = "read"
             /\ repaints' = repaints + 1
             /\ out_chan' = out_chan
    /\ (rd_pc' # rd_pc /\ rd_pc # "repaint") => repaints' = repaints

\* Every byte the read pump has placed in the channel has been consumed by
\* a frame: the channel is empty and the engine has been fed all that was
\* read, but for a chunk the pump has read and not yet sent.
chunks_consumed == out_chan = <<>> /\ fed \o rd_buf = rd_log

\* C33, as stated: for each non-empty read the read pump issues exactly one
\* repaint request, after the chunk has been placed in the output channel,
\* and every chunk that reaches the channel is eventually consumed by a UI
\* frame.
C33_RepaintAndConsume ==
    /\ [][repaint_once_after_send]_vars
    /\ (rd_pc = "send") ~> (rd_pc = "repaint")
    /\ (out_chan # <<>>) ~> (rx_alive /\ chunks_consumed)

\* C33, as the code has it: for each non-empty read whose chunk the channel
\* accepts the read pump issues exactly one repaint request, after the chunk
\* has been placed in the channel, and every chunk that reaches the channel
\* is eventually consumed by a UI frame unless the window is closed first.
C33_RepaintAndConsumeWhileOpen ==
    /\ [][repaint_once_after_send]_vars
    /\ (rd_pc = "send") ~> (rd_pc = "repaint" \/ ~rx_alive)
    /\ (out_chan # <<>>) ~> ((rx_alive /\ chunks_consumed) \/ ~rx_alive)

\* Two reads of one byte each, both sent, a repaint requested after each
\* send, and both chunks consumed by frames of the open window.
C33_Witness ==
    /\ rx_alive
    /\ rd_log = <<97, 10>>
    /\ fed = <<97, 10>>
    /\ out_chan = <<>>
    /\ rd_pc = "read"
    /\ repaints = 1
    /\ ui_pc = "idle"

\* C40: from the resize check of a frame to the end of that frame, in the
\* first frame as in every later one, the window size last applied to the
\* PTY with TIOCSWINSZ is the grid's (cols, rows), and the TIOCSWINSZ and
\* SIGWINCH of the frame, if it made any, carry the grid's dimensions.
C40_PtySizeFollowsGrid ==
    ui_pc = "drain"
       => /\ pty_ws = Some(<<grid.cols, grid.rows>>)
          /\ sys_log # <<>> => sys_log[1] = <<"TIOCSWINSZ", grid.rows, grid.cols>>
====
